---- MODULE Spec2Model ----
(***************************************************************************)
(* The Moonlight session engine (ClientLogic) and its supervisor           *)
(* (MoonlightClient) of device-agent/src/moonlight_codec.rs, with the      *)
(* threads of one session: the supervisor thread, which also runs the      *)
(* engine, the timer thread and the transport thread.                      *)
(*                                                                         *)
(* Time is kept as the age of each pending transaction, in steps of        *)
(* TickDur seconds, saturating at the first age above the timeout.         *)
(* Byte buffers are kept as the sequence of complete frames the codec      *)
(* returns for them.                                                       *)
(*                                                                         *)
(* EngineSpec  the engine in steady state (start_loop), every kind of      *)
(*             command and frame                                           *)
(* Spec        the whole program: start, stop, send_cmd and the threads    *)
(* FairSpec    the whole program with its threads scheduled fairly         *)
(* BackoffSpec the supervisor over any number of failed sessions           *)
(***************************************************************************)
EXTENDS Integers, Sequences, FiniteSets, TLC

\* ------------------------------------------------------------------ bounds
\* send_cmd calls made over a run (each with its own reply channel)
MaxCalls == 2
\* pulse ids a MailOp may name, and ids a response frame may carry: 0..MaxId
MaxId == 1
\* events the transport and timer threads leave unread in proc_mailbox_chan
MaxQueue == 1
\* seconds of one step of the clock
TickDur == 5
\* notifications kept of notify_chan (the most recent ones)
MaxNotify == 2
\* heartbeat acks ping_chan holds before the timer drains them (more are merged)
MaxPing == 1
\* frames waiting in transport_write_chan above which the timer holds its heartbeat
MaxWrites == 1
\* Unauthorized / ConnectFailed reasons the server uses: 0..MaxReason
MaxReason == 0
\* session_lifecycle calls a run of the whole program makes
MaxSessions == 2
\* failures counted in streak (more are counted as MaxStreak)
MaxStreak == 8
\* lengths Creds::validate asks for
FleetIdLen == 8
DeviceIdLen == 10
DeviceSecretLen == 36
\* timer_proc, in ms: its sleep, and the periods timer_logic tests
TimerSleep == 100
HeartbeatEvery == 30000
HeartbeatRetry == 5000
AckDeadline == 90000
RefreshEvery == 500
\* packets in a byte stream
MaxStream == 2
\* bytes of an incomplete packet in the engine's buffer when more are sent
MaxBuffer == 3
\* messages the engine sends in TransportSpec, and TransportRecv events the
\* transport thread posts
MaxMsgs == 2
MaxPosted == 2
\* events queued for the engine at once in OrderSpec
MaxBurst == 2
MaxKey == 4
\* seconds of the authentication phase that are followed
MaxAuthTime == 20

\* ------------------------------------------------------- program constants
\* moonlight_socket: MAX_PENDING_WRITE_AGE in seconds, WRITE_TICK_MAX_BYTES,
\* WRITE_TICK_MAX_MESSAGES
MaxPendingWriteAge == 10
WriteTickMaxBytes == 65536
WriteTickMaxMessages == 32
\* recv_timeout(Duration::from_secs(10)) of wait_for_authentication
AuthRecvTimeout == 10
TxnTimeout == 10
MaxNameLen == 255
Probes == 3
UnauthorizedBackoff == 300000

AgeCap == TxnTimeout + TickDur
Ids == 0..MaxId
Chans == 1..MaxCalls

Min(a, b) == IF a < b THEN a ELSE b

\* n copies of x
Rep(x, n) == [i \in 1..n |-> x]

VARIABLES
    \* MoonlightClient
    sup_pc, shutdown_flag, authenticated, disconnected_reason, reconnect_in,
    mailbox_chan, disconnect_reason, sleep_time, stop_pc,
    \* ClientLogic of the current session
    proc_mailbox_chan, logic_alive, logic_authenticated, pending_txns, next_txn_id,
    transport_write_chan, ping_chan, notify_chan,
    \* the session's threads
    timer_alive, timer_shutdown, socket_alive, socket_close,
    \* the callers of send_cmd: the command of each call, how send_cmd went,
    \* the id push_txn gave it, and what its reply channel has received
    calls, alloc, replies,
    \* non-unauthorized failures since the backoff schedule was last reset
    \* (<<>> once an unauthorized failure has left the schedule), and the
    \* session_lifecycle calls made so far
    streak, sessions,
    \* the engine's codec.buffer, and the Mail records sent to each reply channel
    codec, mails,
    \* the three strings given to Creds::new, and what it returned (<<>>: not
    \* called yet)
    creds, cred_result,
    \* a byte stream on its way to a Codec: the packets it encodes, the bytes that
    \* follow their encodings, the bytes not yet fed, the packets process_packets
    \* has returned, and whether its last call failed
    stream, tail, wire, decoded, codec_err,
    \* timer_proc: the time since each of its three instants and whether
    \* last_heartbeat_sent > last_heartbeat_ack; the time since ping_chan last
    \* received an ack
    timer, ack_idle,
    \* wait_for_authentication: the seconds its current recv_timeout has waited, and
    \* the seconds since it was entered
    auth_clock,
    \* the transport thread of moonlight_socket::connect with its write channel and
    \* its socket: where the thread is, pending_buf, pending_offset, the time since
    \* pending_since, the two counters of push_bytes_to_socket, the messages the
    \* engine is to send and how many it has sent, the messages in write_chan,
    \* whether a sender of write_chan is left, and the bytes the socket has taken
    sock,
    \* the three mutexes of MoonlightClient: the thread that holds the guard of each
    \* ("none": unlocked), and where each thread that uses the client is
    locks

clientVars == <<shutdown_flag, authenticated, disconnected_reason, reconnect_in,
                mailbox_chan>>
supVars == <<sup_pc, clientVars, disconnect_reason, sleep_time, streak, sessions>>
logicVars == <<logic_authenticated, pending_txns, next_txn_id, transport_write_chan,
               ping_chan, notify_chan, codec, alloc, replies, mails>>
threadVars == <<timer_alive, timer_shutdown, socket_alive, socket_close>>
unitVars == <<creds, cred_result, stream, tail, wire, decoded, codec_err, timer,
              ack_idle, auth_clock, sock, locks>>
vars == <<supVars, stop_pc, proc_mailbox_chan, logic_alive, logicVars, threadVars, calls,
          unitVars>>

\* ------------------------------------------------------------------- Creds
\* A String is the sequence of its chars, a char its code point below 256.
\* the text FOS-
FosDash == <<70, 79, 83, 45>>

RECURSIVE AsBytes(_)
\* str::as_bytes: the UTF-8 encoding of the chars
AsBytes(str) ==
    IF str = <<>> THEN <<>>
    ELSE (IF Head(str) < 128 THEN <<Head(str)>>
          ELSE <<192 + (Head(str) \div 64), 128 + (Head(str) % 64)>>) \o AsBytes(Tail(str))

\* str::len: the number of bytes of the UTF-8 encoding
StrLen(str) == Len(AsBytes(str))

\* char::is_alphanumeric: the letters and the numeric chars of Unicode
IsAlphanumeric(c) ==
    \/ c \in 48..57 \/ c \in 65..90 \/ c \in 97..122
    \/ c \in {170, 178, 179, 181, 185, 186, 188, 189, 190}
    \/ c \in 192..214 \/ c \in 216..246 \/ c \in 248..255

\* str::starts_with, for a prefix of ASCII chars
StartsWith(str, prefix) ==
    Len(str) >= Len(prefix) /\ SubSeq(str, 1, Len(prefix)) = prefix

\* chars().skip(n).all(|c| c.is_alphanumeric())
AllAlphanumericFrom(str, n) == \A i \in (n + 1)..Len(str) : IsAlphanumeric(str[i])

\* Ok(()) of the validate functions, and the CredErr variants
CredOk == "Ok"
validate_fleet_id(fleet_id) ==
    IF fleet_id = <<>> THEN "FleetIDMissing"
    ELSE IF StrLen(fleet_id) # FleetIdLen \/ ~AllAlphanumericFrom(fleet_id, 0)
    THEN "FleetIDInvalid"
    ELSE CredOk

validate_device_id(device_id) ==
    IF device_id = <<>> THEN "DeviceIDMissing"
    ELSE IF StrLen(device_id) # DeviceIdLen \/ ~AllAlphanumericFrom(device_id, 0)
    THEN "DeviceIDInvalid"
    ELSE CredOk

validate_device_secret(device_secret) ==
    IF device_secret = <<>> THEN "DeviceSecretMissing"
    ELSE IF \/ StrLen(device_secret) # DeviceSecretLen
            \/ ~StartsWith(device_secret, FosDash)
            \/ ~AllAlphanumericFrom(device_secret, Len(FosDash))
    THEN "DeviceSecretInvalid"
    ELSE CredOk

\* Creds::validate: the ? operator returns the first error
validate(c) ==
    IF validate_fleet_id(c.fleet_id) # CredOk THEN validate_fleet_id(c.fleet_id)
    ELSE IF validate_device_id(c.device_id) # CredOk THEN validate_device_id(c.device_id)
    ELSE validate_device_secret(c.device_secret)

\* Creds::new: Ok(creds) or Err(e), as the error (CredOk: none) and the creds
new(fleet_id, device_id, device_secret) ==
    LET c == [fleet_id |-> fleet_id, device_id |-> device_id,
              device_secret |-> device_secret]
    IN  IF validate(c) = CredOk THEN [err |-> CredOk, creds |-> <<c>>]
        ELSE [err |-> validate(c), creds |-> <<>>]

\* ------------------------------------------------------ DisconnectedReason
NoReason == [kind |-> "None", r |-> 0]
ForceCloseSocket == [kind |-> "ForceCloseSocket", r |-> 0]
NormalDisconnect == [kind |-> "NormalDisconnect", r |-> 0]
Unauthorized(r) == [kind |-> "Unauthorized", r |-> r]
ConnectFailed(r) == [kind |-> "ConnectFailed", r |-> r]
\* unreachable!() in handle_server_resp: the thread running the engine unwinds
Panicked == [kind |-> "Panic", r |-> 0]

\* ------------------------------------------------------------------ frames
\* What the engine puts on transport_write_chan, kept as the packet it encodes:
\* ok is the packet's flag bit, id its pulse_id / txn_id.
Frame(type, ok, id, size) == [type |-> type, ok |-> ok, id |-> id, size |-> size]

ConnectPkt == Frame("Connect", TRUE, 0, 0)
HeartbeatPkt == Frame("Heartbeat", FALSE, 0, 0)
PulsePkt(id) == Frame("Pulse", FALSE, id, 0)
MailboxNextPkt(header_only, id) == Frame("MailboxNext", header_only, id, 0)
AckMailPkt(id) == Frame("AckMail", FALSE, id, 0)

\* --------------------------------------------------------- MoonlightPacket
\* A packet is a record of its variant's fields, named as in the enum, with type
\* the variant's name. An Option is <<>> (None) or <<v>> (Some(v)); a Vec<u8> is
\* a sequence of bytes.
UnauthorizedErrors == 0..6
ConnectFailedErrors == 0..3
PulseTypes == 0..3
PulseErrorReasons == 0..3
MailAckTypes == 1..3
SerializationFormats == 1..2

server_close_connection == [type |-> "CloseConnection", server |-> TRUE]
client_close_connection == [type |-> "CloseConnection", server |-> FALSE]
connect(fleet_id, device_id, device_secret) ==
    [type |-> "Connect", keep_alive |-> TRUE, protocol_version |-> 1,
     serialization_format |-> 2, fleet_id |-> fleet_id, device_id |-> device_id,
     device_secret |-> device_secret]
connected(mail_available, keep_alive) ==
    [type |-> "Connected", mail_available |-> mail_available, keep_alive |-> keep_alive]
unauthorized_packet(reason) == [type |-> "Unauthorized", reason |-> reason]
connect_failed(reason) == [type |-> "ConnectFailed", reason |-> reason]
heartbeat == [type |-> "Heartbeat", flags |-> 0]
heartbeat_ack(successful) == [type |-> "HeartbeatAck", successful |-> successful]
pulse(pulse_type, pulse_id, name, payload) ==
    [type |-> "Pulse", pulse_type |-> pulse_type, pulse_id |-> pulse_id,
     name_len |-> Len(name) % 256, name |-> name,
     payload_len |-> Len(payload), payload |-> payload]
pulse_resp_success(pulse_id) ==
    [type |-> "PulseResp", successful |-> TRUE, pulse_id |-> pulse_id,
     error_reason |-> <<>>]
pulse_resp_error(pulse_id, error_reason) ==
    [type |-> "PulseResp", successful |-> FALSE, pulse_id |-> pulse_id,
     error_reason |-> <<error_reason>>]
new_mail_event(mailbox_size, pulse_id) ==
    [type |-> "NewMailEvent", mailbox_size |-> mailbox_size, pulse_id |-> pulse_id]
mailbox_next(header_only, txn_id) ==
    [type |-> "MailboxNext", header_only |-> header_only, txn_id |-> txn_id]
mailbox_next_resp_empty(txn_id) ==
    [type |-> "MailboxNextResp", header_only |-> FALSE, successful |-> TRUE,
     txn_id |-> txn_id, mailbox_size |-> 0, pulse_id |-> <<>>, name_len |-> <<>>,
     name |-> <<>>, payload_len |-> <<>>, payload |-> <<>>]
mailbox_next_resp_failed(txn_id) ==
    [type |-> "MailboxNextResp", header_only |-> FALSE, successful |-> FALSE,
     txn_id |-> txn_id, mailbox_size |-> 0, pulse_id |-> <<>>, name_len |-> <<>>,
     name |-> <<>>, payload_len |-> <<>>, payload |-> <<>>]
mailbox_next_resp_header_only(txn_id, mailbox_size, pulse_id, name) ==
    [type |-> "MailboxNextResp", header_only |-> TRUE, successful |-> TRUE,
     txn_id |-> txn_id, mailbox_size |-> mailbox_size, pulse_id |-> <<pulse_id>>,
     name_len |-> <<Len(name) % 256>>, name |-> <<name>>, payload_len |-> <<>>,
     payload |-> <<>>]
mailbox_next_resp_full(txn_id, mailbox_size, pulse_id, name, payload) ==
    [type |-> "MailboxNextResp", header_only |-> FALSE, successful |-> TRUE,
     txn_id |-> txn_id, mailbox_size |-> mailbox_size, pulse_id |-> <<pulse_id>>,
     name_len |-> <<Len(name) % 256>>, name |-> <<name>>,
     payload_len |-> <<Len(payload)>>, payload |-> <<payload>>]
ack_mail(pulse_id, ack_type) ==
    [type |-> "AckMail", pulse_id |-> pulse_id, ack_type |-> ack_type]
ack_mail_resp(mailbox_size, pulse_id, ack_type) ==
    [type |-> "AckMailResp", successful |-> TRUE, mailbox_size |-> mailbox_size,
     pulse_id |-> pulse_id, ack_type |-> ack_type]
ack_mail_resp_failed(pulse_id, ack_type) ==
    [type |-> "AckMailResp", successful |-> FALSE, mailbox_size |-> 0,
     pulse_id |-> pulse_id, ack_type |-> ack_type]

\* ------------------------------------------------------------------- Codec
RECURSIVE BE(_, _)
\* n written as w bytes, most significant first (endian = "big")
BE(n, w) == IF w = 0 THEN <<>> ELSE Append(BE(n \div 256, w - 1), n % 256)

RECURSIVE NumTo(_, _)
\* the unsigned integer read from the first n of the bytes b
NumTo(b, n) == IF n = 0 THEN 0 ELSE NumTo(b, n - 1) * 256 + b[n]

\* the unsigned integer read from bytes, most significant first
Num(b) == NumTo(b, Len(b))

\* the one element of a set of one element: in CHOOSE r \in {e(v) : v \in {x}}
\* the value x is computed once and e reads it as v
The(set) == CHOOSE r \in set : TRUE

Bit(x) == IF x THEN 1 ELSE 0
Sub(b, i, n) == SubSeq(b, i, i + n - 1)
\* an Option field written as a field of w bytes whatever it is, 0 for None
OptBEAlwaysWritten(o, w) == IF o = <<>> THEN BE(0, w) ELSE BE(o[1], w)

\* an Option<u64>, Option<u32> or Option<u8> field: written when it is Some
OptBE(o, w) == IF o = <<>> THEN <<>> ELSE BE(o[1], w)
\* an Option<Vec<u8>> field: every byte of the Vec is written when it is Some
OptBytes(o) == IF o = <<>> THEN <<>> ELSE o[1]

\* Codec::encode, MoonlightPacket::to_bytes: the tag, the flags byte with its pad
\* bits zero, then the fields in their order
Encode(p) ==
    CASE p.type = "CloseConnection" -> <<1, Bit(p.server)>>
      [] p.type = "Connect" ->
            <<2, Bit(p.keep_alive), p.protocol_version, p.serialization_format>>
            \o p.fleet_id \o p.device_id \o p.device_secret
      [] p.type = "Connected" -> <<3, 2 * Bit(p.mail_available) + Bit(p.keep_alive)>>
      [] p.type = "Unauthorized" -> <<4, 0, p.reason>>
      [] p.type = "ConnectFailed" -> <<5, 0, p.reason>>
      [] p.type = "Heartbeat" -> <<8, p.flags>>
      [] p.type = "HeartbeatAck" -> <<9, Bit(p.successful)>>
      [] p.type = "Pulse" ->
            <<10, 0, p.pulse_type>> \o BE(p.pulse_id, 8) \o <<p.name_len>> \o p.name
            \o BE(p.payload_len, 4) \o p.payload
      [] p.type = "PulseResp" ->
            <<11, Bit(p.successful)>> \o BE(p.pulse_id, 8) \o OptBE(p.error_reason, 1)
      [] p.type = "NewMailEvent" ->
            <<20, 0>> \o BE(p.mailbox_size, 2) \o BE(p.pulse_id, 8)
      [] p.type = "MailboxNext" -> <<21, Bit(p.header_only)>> \o BE(p.txn_id, 8)
      [] p.type = "MailboxNextResp" ->
            <<22, 2 * Bit(p.header_only) + Bit(p.successful)>> \o BE(p.txn_id, 8)
            \o BE(p.mailbox_size, 2) \o OptBE(p.pulse_id, 8) \o OptBE(p.name_len, 1)
            \o OptBytes(p.name) \o OptBE(p.payload_len, 4) \o OptBytes(p.payload)
      [] p.type = "AckMail" -> <<25, 0>> \o BE(p.pulse_id, 8) \o <<p.ack_type>>
      [] p.type = "AckMailResp" ->
            <<26, Bit(p.successful)>> \o BE(p.mailbox_size, 2) \o BE(p.pulse_id, 8)
            \o <<p.ack_type>>

\* the ids of MoonlightPacket's variants
Tags == {1, 2, 3, 4, 5, 8, 9, 10, 11, 20, 21, 22, 25, 26}

\* what Codec::decode returns: Ok(Some((packet, consumed))), Ok(None), Err(..)
Decoded(packet, consumed) == [st |-> "ok", packet |-> packet, consumed |-> consumed]
Incomplete == [st |-> "incomplete"]
DecodeError == [st |-> "error"]

\* the fields of a MailboxNextResp that follow mailbox_size, read at byte 13
DecodeMail(b, header_only, txn_id, mailbox_size) ==
    IF Len(b) < 21 THEN Incomplete
    ELSE LET name_len == b[21]
             after == 21 + name_len
         IN  IF Len(b) < after THEN Incomplete
             ELSE IF header_only
             THEN Decoded([type |-> "MailboxNextResp", header_only |-> TRUE,
                           successful |-> TRUE, txn_id |-> txn_id,
                           mailbox_size |-> mailbox_size,
                           pulse_id |-> <<Num(Sub(b, 13, 8))>>,
                           name_len |-> <<name_len>>,
                           name |-> <<Sub(b, 22, name_len)>>,
                           payload_len |-> <<>>, payload |-> <<>>], after)
             ELSE IF Len(b) < after + 4 THEN Incomplete
             ELSE LET payload_len == Num(Sub(b, after + 1, 4))
                  IN  IF Len(b) < after + 4 + payload_len THEN Incomplete
                      ELSE Decoded([type |-> "MailboxNextResp", header_only |-> FALSE,
                                    successful |-> TRUE, txn_id |-> txn_id,
                                    mailbox_size |-> mailbox_size,
                                    pulse_id |-> <<Num(Sub(b, 13, 8))>>,
                                    name_len |-> <<name_len>>,
                                    name |-> <<Sub(b, 22, name_len)>>,
                                    payload_len |-> <<payload_len>>,
                                    payload |-> <<Sub(b, after + 5, payload_len)>>],
                                   after + 4 + payload_len)

\* Codec::decode, MoonlightPacket::from_bytes: the fields are read in their order;
\* a field that needs more bytes than are left gives Incomplete, a tag or an enum
\* value that is no id of its type gives an error; pad bits are skipped.
Decode(b) ==
    IF b = <<>> THEN Incomplete
    ELSE CASE b[1] \in {1, 8, 9, 3} ->
                IF Len(b) < 2 THEN Incomplete
                ELSE IF b[1] = 1
                THEN Decoded([type |-> "CloseConnection", server |-> b[2] % 2 = 1], 2)
                ELSE IF b[1] = 3
                THEN Decoded([type |-> "Connected",
                              mail_available |-> (b[2] \div 2) % 2 = 1,
                              keep_alive |-> b[2] % 2 = 1], 2)
                ELSE IF b[1] = 8
                THEN Decoded([type |-> "Heartbeat", flags |-> b[2]], 2)
                ELSE Decoded([type |-> "HeartbeatAck", successful |-> b[2] % 2 = 1], 2)
           [] b[1] = 2 ->
                IF Len(b) < 4 THEN Incomplete
                ELSE IF b[4] \notin SerializationFormats THEN DecodeError
                ELSE IF Len(b) < 58 THEN Incomplete
                ELSE Decoded([type |-> "Connect", keep_alive |-> b[2] % 2 = 1,
                              protocol_version |-> b[3], serialization_format |-> b[4],
                              fleet_id |-> Sub(b, 5, 8), device_id |-> Sub(b, 13, 10),
                              device_secret |-> Sub(b, 23, 36)], 58)
           [] b[1] \in {4, 5} ->
                IF Len(b) < 3 THEN Incomplete
                ELSE IF b[1] = 4
                THEN IF b[3] \notin UnauthorizedErrors THEN DecodeError
                     ELSE Decoded([type |-> "Unauthorized", reason |-> b[3]], 3)
                ELSE IF b[3] \notin ConnectFailedErrors THEN DecodeError
                     ELSE Decoded([type |-> "ConnectFailed", reason |-> b[3]], 3)
           [] b[1] = 10 ->
                IF Len(b) < 3 THEN Incomplete
                ELSE IF b[3] \notin PulseTypes THEN DecodeError
                ELSE IF Len(b) < 12 THEN Incomplete
                ELSE LET name_len == b[12]
                         after == 12 + name_len
                     IN  IF Len(b) < after + 4 THEN Incomplete
                         ELSE LET payload_len == Num(Sub(b, after + 1, 4))
                              IN  IF Len(b) < after + 4 + payload_len THEN Incomplete
                                  ELSE Decoded([type |-> "Pulse", pulse_type |-> b[3],
                                                pulse_id |-> Num(Sub(b, 4, 8)),
                                                name_len |-> name_len,
                                                name |-> Sub(b, 13, name_len),
                                                payload_len |-> payload_len,
                                                payload |-> Sub(b, after + 5, payload_len)],
                                               after + 4 + payload_len)
           [] b[1] = 11 ->
                IF Len(b) < 10 THEN Incomplete
                ELSE IF b[2] % 2 = 1
                THEN Decoded([type |-> "PulseResp", successful |-> TRUE,
                              pulse_id |-> Num(Sub(b, 3, 8)), error_reason |-> <<>>], 10)
                ELSE IF Len(b) < 11 THEN Incomplete
                ELSE IF b[11] \notin PulseErrorReasons THEN DecodeError
                ELSE Decoded([type |-> "PulseResp", successful |-> FALSE,
                              pulse_id |-> Num(Sub(b, 3, 8)),
                              error_reason |-> <<b[11]>>], 11)
           [] b[1] = 20 ->
                IF Len(b) < 12 THEN Incomplete
                ELSE Decoded([type |-> "NewMailEvent", mailbox_size |-> Num(Sub(b, 3, 2)),
                              pulse_id |-> Num(Sub(b, 5, 8))], 12)
           [] b[1] = 21 ->
                IF Len(b) < 10 THEN Incomplete
                ELSE Decoded([type |-> "MailboxNext", header_only |-> b[2] % 2 = 1,
                              txn_id |-> Num(Sub(b, 3, 8))], 10)
           [] b[1] = 22 ->
                IF Len(b) < 12 THEN Incomplete
                ELSE LET header_only == (b[2] \div 2) % 2 = 1
                         successful == b[2] % 2 = 1
                         txn_id == Num(Sub(b, 3, 8))
                         mailbox_size == Num(Sub(b, 11, 2))
                     IN  IF successful /\ mailbox_size > 0
                         THEN DecodeMail(b, header_only, txn_id, mailbox_size)
                         ELSE Decoded([type |-> "MailboxNextResp",
                                       header_only |-> header_only,
                                       successful |-> successful, txn_id |-> txn_id,
                                       mailbox_size |-> mailbox_size, pulse_id |-> <<>>,
                                       name_len |-> <<>>, name |-> <<>>,
                                       payload_len |-> <<>>, payload |-> <<>>], 12)
           [] b[1] = 25 ->
                IF Len(b) < 11 THEN Incomplete
                ELSE IF b[11] \notin MailAckTypes THEN DecodeError
                ELSE Decoded([type |-> "AckMail", pulse_id |-> Num(Sub(b, 3, 8)),
                              ack_type |-> b[11]], 11)
           [] b[1] = 26 ->
                IF Len(b) < 13 THEN Incomplete
                ELSE IF b[13] \notin MailAckTypes THEN DecodeError
                ELSE Decoded([type |-> "AckMailResp", successful |-> b[2] % 2 = 1,
                              mailbox_size |-> Num(Sub(b, 3, 2)),
                              pulse_id |-> Num(Sub(b, 5, 8)), ack_type |-> b[13]], 13)
           [] OTHER -> DecodeError

RECURSIVE ProcessPackets(_)
\* process_packets that takes bytes it cannot decode for an incomplete packet
ProcessPacketsErrorAsIncomplete(buffer) ==
    The({CASE d.st \in {"incomplete", "error"} ->
                [ok |-> TRUE, packets |-> <<>>, buffer |-> buffer]
           [] OTHER ->
                The({[ok |-> rest.ok,
                      packets |-> IF rest.ok THEN <<d.packet>> \o rest.packets ELSE <<>>,
                      buffer |-> rest.buffer]
                     : rest \in {ProcessPackets(SubSeq(buffer, d.consumed + 1,
                                                       Len(buffer)))}})
         : d \in {Decode(buffer)}})

\* Codec::process_packets on the buffer: packets are decoded and drained from
\* its front until the rest is incomplete (Ok: the packets, and the rest stays
\* buffered) or fails to decode (Err)
ProcessPackets(buffer) ==
    The({CASE d.st = "incomplete" -> [ok |-> TRUE, packets |-> <<>>, buffer |-> buffer]
           [] d.st = "error" -> [ok |-> FALSE, packets |-> <<>>, buffer |-> buffer]
           [] OTHER ->
                The({[ok |-> rest.ok,
                      packets |-> IF rest.ok THEN <<d.packet>> \o rest.packets ELSE <<>>,
                      buffer |-> rest.buffer]
                     : rest \in {ProcessPackets(SubSeq(buffer, d.consumed + 1,
                                                       Len(buffer)))}})
         : d \in {Decode(buffer)}})

\* ------------------------------------------------------------------ events
NoCmd == [kind |-> "None", key |-> 0, name_len |-> 0, chan |-> 0]
Event(type, cmd, bytes) == [type |-> type, cmd |-> cmd, bytes |-> bytes]
Refresh == Event("Refresh", NoCmd, <<>>)
HeartbeatTick == Event("HeartbeatTick", NoCmd, <<>>)
TransportClose == Event("TransportClose", NoCmd, <<>>)
TransportRecv(bytes) == Event("TransportRecv", NoCmd, bytes)
Cmd(cmd) == Event("Cmd", cmd, <<>>)

\* ------------------------------------------------------------ ServerResp
ServerResp(tag, ok, id, aux, reason) ==
    [tag |-> tag, ok |-> ok, id |-> id, aux |-> aux, reason |-> reason]

\* ServerResp::MailboxNext(Ok((txn_id, Some(mail))))
MailResp(txn_id, mail) ==
    [tag |-> "MailboxNext", ok |-> TRUE, id |-> txn_id, aux |-> TRUE,
     reason |-> NoReason, mail |-> mail]

RECURSIVE FromUtf8(_)
\* String::from_utf8(bytes).is_ok(): the bytes are well-formed UTF-8
FromUtf8(b) ==
    LET Cont(i, lo, hi) == Len(b) >= i /\ b[i] >= lo /\ b[i] <= hi
        Rest(n) == FromUtf8(SubSeq(b, n + 1, Len(b)))
    IN  IF b = <<>> THEN TRUE
        ELSE CASE b[1] <= 127 -> Rest(1)
               [] b[1] >= 194 /\ b[1] <= 223 -> Cont(2, 128, 191) /\ Rest(2)
               [] b[1] = 224 -> Cont(2, 160, 191) /\ Cont(3, 128, 191) /\ Rest(3)
               [] b[1] >= 225 /\ b[1] <= 236 ->
                    Cont(2, 128, 191) /\ Cont(3, 128, 191) /\ Rest(3)
               [] b[1] = 237 -> Cont(2, 128, 159) /\ Cont(3, 128, 191) /\ Rest(3)
               [] b[1] >= 238 /\ b[1] <= 239 ->
                    Cont(2, 128, 191) /\ Cont(3, 128, 191) /\ Rest(3)
               [] b[1] = 240 ->
                    Cont(2, 144, 191) /\ Cont(3, 128, 191) /\ Cont(4, 128, 191) /\ Rest(4)
               [] b[1] >= 241 /\ b[1] <= 243 ->
                    Cont(2, 128, 191) /\ Cont(3, 128, 191) /\ Cont(4, 128, 191) /\ Rest(4)
               [] b[1] = 244 ->
                    Cont(2, 128, 143) /\ Cont(3, 128, 191) /\ Cont(4, 128, 191) /\ Rest(4)
               [] OTHER -> FALSE

\* the texts 7, null and true
JsonSeven == <<55>>
JsonNull == <<110, 117, 108, 108>>
JsonTrue == <<116, 114, 117, 101>>

\* serde_json::from_str::<Option<Value>>(pl).unwrap_or_default(), given for the
\* texts above, the empty text and texts that begin no JSON value: Some(value) for
\* a value that is not null, None for null and for a text that does not parse
FromStr(pl) ==
    CASE pl = JsonSeven -> <<"7">>
      [] pl = JsonTrue -> <<"true">>
      [] pl = JsonNull -> <<>>
      [] OTHER -> <<>>

\* a Mail that never carries its payload
MailWithoutPayload(pulse_id, name, payload, mailbox_size) ==
    [pulse_id |-> pulse_id, name |-> name, payload |-> <<>>,
     mailbox_size |-> mailbox_size]

\* Mail
Mail(pulse_id, name, payload, mailbox_size) ==
    [pulse_id |-> pulse_id, name |-> name, payload |-> payload,
     mailbox_size |-> mailbox_size]

HandlePacket(p) ==
    CASE p.type = "CloseConnection" /\ p.server ->
            ServerResp("Disconnected", FALSE, 0, FALSE, NormalDisconnect)
      [] p.type = "ConnectFailed" ->
            ServerResp("Disconnected", FALSE, 0, FALSE, ConnectFailed(p.reason))
      [] p.type = "Unauthorized" ->
            ServerResp("Disconnected", FALSE, 0, FALSE, Unauthorized(p.reason))
      [] p.type = "Connected" ->
            ServerResp("Connected", p.mail_available, 0, FALSE, NoReason)
      [] p.type = "HeartbeatAck" -> ServerResp("HeartbeatAck", FALSE, 0, FALSE, NoReason)
      [] p.type = "PulseResp" ->
            ServerResp("PulseResp", p.successful, p.pulse_id, FALSE, NoReason)
      [] p.type = "AckMailResp" ->
            ServerResp("AckMailResp", p.successful, p.pulse_id, p.mailbox_size > 0,
                       NoReason)
      [] p.type = "MailboxNextResp" ->
            IF p.successful /\ p.mailbox_size # 0
            THEN IF p.pulse_id = <<>> \/ p.name = <<>> \/ ~FromUtf8(OptBytes(p.name))
                 THEN ServerResp("MailboxNext", FALSE, p.txn_id, FALSE, NoReason)
                 ELSE IF p.header_only
                 THEN MailResp(p.txn_id,
                               Mail(p.pulse_id[1], p.name[1], <<>>, p.mailbox_size))
                 ELSE MailResp(p.txn_id,
                               Mail(p.pulse_id[1], p.name[1],
                                    IF p.payload # <<>> /\ FromUtf8(OptBytes(p.payload))
                                    THEN FromStr(p.payload[1]) ELSE <<>>,
                                    p.mailbox_size))
            ELSE IF p.successful /\ p.mailbox_size = 0
            THEN ServerResp("MailboxNext", TRUE, p.txn_id, FALSE, NoReason)
            ELSE ServerResp("MailboxNext", FALSE, p.txn_id, FALSE, NoReason)
      [] p.type = "NewMailEvent" -> ServerResp("NewMail", FALSE, 0, FALSE, NoReason)
      [] OTHER -> ServerResp("ForceCloseSocket", FALSE, 0, FALSE, NoReason)

\* ------------------------------------------------------------ ClientLogic
\* The engine's fields as one record, with res the DisconnectedReason the step
\* returns (NoReason: none).
Logic ==
    [pending |-> pending_txns, next |-> next_txn_id, tw |-> transport_write_chan,
     ping |-> ping_chan, notify |-> notify_chan, auth |-> logic_authenticated,
     codec |-> codec, alloc |-> alloc, replies |-> replies, mails |-> mails,
     res |-> NoReason]

Store(s) ==
    /\ pending_txns' = s.pending
    /\ next_txn_id' = s.next
    /\ transport_write_chan' = s.tw
    /\ ping_chan' = s.ping
    /\ notify_chan' = s.notify
    /\ logic_authenticated' = s.auth
    /\ codec' = s.codec
    /\ alloc' = s.alloc
    /\ replies' = s.replies
    /\ mails' = s.mails

\* return_chan.send(val); fid is the id of the response frame that caused it
Reply(s, c, val, fid) ==
    [s EXCEPT !.replies[c] = Append(@, [val |-> val, fid |-> fid])]

\* notify_chan.send(name)
Notify(s, name) ==
    LET all == Append(s.notify, name)
    IN  [s EXCEPT !.notify = IF Len(all) > MaxNotify THEN Tail(all) ELSE all]

ContainsKey(s, id) == \E e \in s.pending : e.id = id
Entry(s, id) == CHOOSE e \in s.pending : e.id = id

\* transport_write_chan.send(bytes): fails once the transport thread has gone
WritePacketToTransport(s, p) ==
    IF socket_alive
    THEN [ok |-> TRUE, s |-> [s EXCEPT !.tw = Append(@, p)]]
    ELSE [ok |-> FALSE, s |-> s]

\* resolve_txn taking an entry of the table without looking at its key
ResolveTxnAnyEntry(s, txn_id, return_value) ==
    IF s.pending # {}
    THEN LET e == CHOOSE x \in s.pending : \A y \in s.pending : x.chan <= y.chan
         IN  [Reply(s, e.chan, return_value, <<txn_id>>) EXCEPT !.pending = @ \ {e}]
    ELSE s

\* resolve_txn with get in place of remove: the entry stays in the table
ResolveTxnKeepsEntry(s, txn_id, return_value) ==
    IF ContainsKey(s, txn_id)
    THEN Reply(s, Entry(s, txn_id).chan, return_value, <<txn_id>>)
    ELSE s

\* resolve_txn that ends the session when no entry holds the key
ResolveTxnUnknownEndsSession(s, txn_id, return_value) ==
    IF ContainsKey(s, txn_id)
    THEN LET e == Entry(s, txn_id)
         IN  [Reply(s, e.chan, return_value, <<txn_id>>) EXCEPT !.pending = @ \ {e}]
    ELSE [s EXCEPT !.res = ForceCloseSocket]

ResolveTxn(s, txn_id, return_value) ==
    IF ContainsKey(s, txn_id)
    THEN LET e == Entry(s, txn_id)
         IN  [Reply(s, e.chan, return_value, <<txn_id>>) EXCEPT !.pending = @ \ {e}]
    ELSE s

\* refresh that finds no entry old enough
RefreshSweepNever(s) == s

\* refresh with >= in place of >
RefreshSweepAtTimeout(s) ==
    LET timed_out == {e \in s.pending : e.age >= TxnTimeout}
    IN  [s EXCEPT
            !.pending = @ \ timed_out,
            !.replies = [c \in Chans |->
                            IF \E e \in timed_out : e.chan = c
                            THEN Append(@[c], [val |-> "Timeout", fid |-> <<>>])
                            ELSE @[c]]]

RefreshSweep(s) ==
    LET timed_out == {e \in s.pending : e.age > TxnTimeout}
    IN  [s EXCEPT
            !.pending = @ \ timed_out,
            !.replies = [c \in Chans |->
                            IF \E e \in timed_out : e.chan = c
                            THEN Append(@[c], [val |-> "Timeout", fid |-> <<>>])
                            ELSE @[c]]]

RECURSIVE Probe(_, _, _, _)
\* the loop of push_txn: <<txn_id, next_txn_id>> after at most n more probes
Probe(s, txn_id, next, n) ==
    IF n = 0 \/ ~ContainsKey(s, txn_id)
    THEN <<txn_id, next>>
    ELSE Probe(s, next, next + 1, n - 1)

\* push_txn without the test after the probes: the candidate is inserted over
\* the entry that holds its key
PushTxnOverwrites(s, return_chan) ==
    LET got == Probe(s, s.next, s.next + 1, Probes)
        s1 == [s EXCEPT !.next = got[2]]
    IN  [ok |-> TRUE, txn_id |-> got[1],
         s |-> [s1 EXCEPT
                   !.pending = {e \in @ : e.id # got[1]}
                               \cup {[id |-> got[1], chan |-> return_chan, age |-> 0]},
                   !.alloc[return_chan] = <<got[1]>>]]

PushTxn(s, return_chan) ==
    LET got == Probe(s, s.next, s.next + 1, Probes)
        s1 == [s EXCEPT !.next = got[2]]
    IN  IF ContainsKey(s1, got[1])
        THEN [ok |-> FALSE, txn_id |-> got[1],
              s |-> Reply(s1, return_chan, "Err:txn_failed", <<>>)]
        ELSE [ok |-> TRUE, txn_id |-> got[1],
              s |-> [s1 EXCEPT
                        !.pending = @ \cup {[id |-> got[1], chan |-> return_chan, age |-> 0]},
                        !.alloc[return_chan] = <<got[1]>>]]

\* handle_cmd whose MailOp arm inserts without the contains_key test
HandleCmdNoDuplicateTest(s, cmd) ==
    CASE cmd.kind = "SendPulse" ->
            IF cmd.name_len > MaxNameLen
            THEN [ok |-> TRUE, s |-> Reply(s, cmd.chan, "Err:invalid_name", <<>>)]
            ELSE LET t == PushTxn(s, cmd.chan)
                 IN  IF t.ok THEN WritePacketToTransport(t.s, PulsePkt(t.txn_id))
                     ELSE [ok |-> FALSE, s |-> t.s]
      [] cmd.kind = "MailboxNext" ->
            LET t == PushTxn(s, cmd.chan)
            IN  IF t.ok THEN WritePacketToTransport(t.s, MailboxNextPkt(FALSE, t.txn_id))
                ELSE [ok |-> FALSE, s |-> t.s]
      [] cmd.kind = "MailOp" ->
            WritePacketToTransport(
                [s EXCEPT !.pending =
                    {e \in @ : e.id # cmd.key}
                    \cup {[id |-> cmd.key, chan |-> cmd.chan, age |-> 0]}],
                AckMailPkt(cmd.key))

HandleCmd(s, cmd) ==
    CASE cmd.kind = "SendPulse" ->
            IF cmd.name_len > MaxNameLen
            THEN [ok |-> TRUE, s |-> Reply(s, cmd.chan, "Err:invalid_name", <<>>)]
            ELSE LET t == PushTxn(s, cmd.chan)
                 IN  IF t.ok THEN WritePacketToTransport(t.s, PulsePkt(t.txn_id))
                     ELSE [ok |-> FALSE, s |-> t.s]
      [] cmd.kind = "MailboxNext" ->
            LET t == PushTxn(s, cmd.chan)
            IN  IF t.ok THEN WritePacketToTransport(t.s, MailboxNextPkt(FALSE, t.txn_id))
                ELSE [ok |-> FALSE, s |-> t.s]
      [] cmd.kind = "MailOp" ->
            IF ContainsKey(s, cmd.key)
            THEN [ok |-> TRUE, s |-> Reply(s, cmd.chan, "Err:duplicate_request", <<>>)]
            ELSE WritePacketToTransport(
                    [s EXCEPT !.pending =
                        @ \cup {[id |-> cmd.key, chan |-> cmd.chan, age |-> 0]}],
                    AckMailPkt(cmd.key))

\* handle_server_resp that lets a Connected pass
HandleServerRespIgnoresConnected(s, resp) ==
    CASE resp.tag = "ForceCloseSocket" -> [s EXCEPT !.res = ForceCloseSocket]
      [] resp.tag = "Disconnected" -> [s EXCEPT !.res = resp.reason]
      [] resp.tag = "Connected" -> s
      [] resp.tag = "HeartbeatAck" -> [s EXCEPT !.ping = Min(@ + 1, MaxPing)]
      [] resp.tag = "NewMail" -> Notify(s, "new_mail")
      [] resp.tag = "PulseResp" ->
            IF resp.ok THEN ResolveTxn(s, resp.id, "Ok")
            ELSE ResolveTxn(s, resp.id, "Err:pulse")
      [] resp.tag = "AckMailResp" ->
            IF resp.ok /\ ~resp.aux THEN ResolveTxn(s, resp.id, "MailAckSuccessful:false")
            ELSE IF resp.ok THEN ResolveTxn(s, resp.id, "MailAckSuccessful:true")
            ELSE ResolveTxn(s, resp.id, "Err:mail_ack_failed")
      [] resp.tag = "MailboxNext" ->
            IF resp.ok /\ resp.aux
            THEN LET s1 == ResolveTxn(s, resp.id, "Mail:Some")
                 IN  [s1 EXCEPT !.mails =
                        [c \in Chans |->
                            IF Len(s1.replies[c]) > Len(s.replies[c])
                            THEN Append(@[c], resp.mail) ELSE @[c]]]
            ELSE IF resp.ok THEN ResolveTxn(s, resp.id, "Mail:None")
            ELSE ResolveTxn(s, resp.id, "Err:failed")

HandleServerResp(s, resp) ==
    CASE resp.tag = "ForceCloseSocket" -> [s EXCEPT !.res = ForceCloseSocket]
      [] resp.tag = "Disconnected" -> [s EXCEPT !.res = resp.reason]
      [] resp.tag = "Connected" -> [s EXCEPT !.res = Panicked]
      [] resp.tag = "HeartbeatAck" -> [s EXCEPT !.ping = Min(@ + 1, MaxPing)]
      [] resp.tag = "NewMail" -> Notify(s, "new_mail")
      [] resp.tag = "PulseResp" ->
            IF resp.ok THEN ResolveTxn(s, resp.id, "Ok")
            ELSE ResolveTxn(s, resp.id, "Err:pulse")
      [] resp.tag = "AckMailResp" ->
            IF resp.ok /\ ~resp.aux THEN ResolveTxn(s, resp.id, "MailAckSuccessful:false")
            ELSE IF resp.ok THEN ResolveTxn(s, resp.id, "MailAckSuccessful:true")
            ELSE ResolveTxn(s, resp.id, "Err:mail_ack_failed")
      [] resp.tag = "MailboxNext" ->
            IF resp.ok /\ resp.aux
            THEN LET s1 == ResolveTxn(s, resp.id, "Mail:Some")
                 IN  [s1 EXCEPT !.mails =
                        [c \in Chans |->
                            IF Len(s1.replies[c]) > Len(s.replies[c])
                            THEN Append(@[c], resp.mail) ELSE @[c]]]
            ELSE IF resp.ok THEN ResolveTxn(s, resp.id, "Mail:None")
            ELSE ResolveTxn(s, resp.id, "Err:failed")

RECURSIVE HandlePacketsGoesOn(_, _)
\* the loop over the packets that handles them all and returns the first reason
HandlePacketsGoesOn(s, packets) ==
    IF packets = <<>> THEN s
    ELSE The({The({IF s1.res # NoReason THEN [s2 EXCEPT !.res = s1.res] ELSE s2
                   : s2 \in {HandlePacketsGoesOn([s1 EXCEPT !.res = NoReason],
                                                 Tail(packets))}})
              : s1 \in {The({HandleServerResp(s, resp)
                             : resp \in {HandlePacket(Head(packets))}})}})

RECURSIVE HandlePacketsLastFirst(_, _)
\* the loop over the packets taking them from the last to the first
HandlePacketsLastFirst(s, packets) ==
    IF packets = <<>> THEN s
    ELSE The({IF s1.res # NoReason THEN s1
              ELSE HandlePacketsLastFirst(s1, SubSeq(packets, 1, Len(packets) - 1))
              : s1 \in {The({HandleServerResp(s, resp)
                             : resp \in {HandlePacket(packets[Len(packets)])}})}})

RECURSIVE HandlePackets(_, _)
\* for packet in packets { handle_server_resp(handle_packet(packet)) }, ending at the
\* first packet that returns a reason
HandlePackets(s, packets) ==
    IF packets = <<>> THEN s
    ELSE The({IF s1.res # NoReason THEN s1 ELSE HandlePackets(s1, Tail(packets))
              : s1 \in {The({HandleServerResp(s, resp)
                             : resp \in {HandlePacket(Head(packets))}})}})

ProcessClientEvent(s, ev) ==
    CASE ev.type = "Refresh" -> RefreshSweep(s)
      [] ev.type = "HeartbeatTick" ->
            LET w == WritePacketToTransport(s, HeartbeatPkt)
            IN  IF w.ok THEN w.s ELSE [s EXCEPT !.res = ForceCloseSocket]
      [] ev.type = "TransportRecv" ->
            The({IF d.ok THEN HandlePackets([s EXCEPT !.codec = d.buffer], d.packets)
                 ELSE [s EXCEPT !.codec = d.buffer, !.res = ForceCloseSocket]
                 : d \in {ProcessPackets(s.codec \o ev.bytes)}})
      [] ev.type = "TransportClose" -> [s EXCEPT !.res = ForceCloseSocket]
      [] ev.type = "Cmd" ->
            LET h == HandleCmd(s, ev.cmd)
            IN  IF h.ok THEN h.s ELSE [h.s EXCEPT !.res = ForceCloseSocket]

\* wait_for_authentication that sends the new_mail notification whatever
\* mail_available is
AuthPacketsAlwaysNewMail(s0, d) ==
    IF ~d.ok THEN [done |-> FALSE, s |-> [s0 EXCEPT !.res = ForceCloseSocket]]
    ELSE IF d.packets = <<>> THEN [done |-> FALSE, s |-> s0]
    ELSE The({CASE first.tag = "Connected" ->
                     The({[done |-> s3.res = NoReason, s |-> s3]
                          : s3 \in {HandlePackets(
                                Notify(Notify([s0 EXCEPT !.auth = TRUE], "connected"),
                                       "new_mail"),
                                Tail(d.packets))}})
                [] first.tag = "Disconnected" ->
                     [done |-> FALSE, s |-> [s0 EXCEPT !.res = first.reason]]
                [] OTHER ->
                     [done |-> FALSE, s |-> [s0 EXCEPT !.res = ForceCloseSocket]]
              : first \in {HandlePacket(Head(d.packets))}})

\* wait_for_authentication that goes on waiting after a first packet that is
\* neither Connected nor a disconnection
AuthPacketsSkipsOtherFrames(s0, d) ==
    IF ~d.ok THEN [done |-> FALSE, s |-> [s0 EXCEPT !.res = ForceCloseSocket]]
    ELSE IF d.packets = <<>> THEN [done |-> FALSE, s |-> s0]
    ELSE The({CASE first.tag = "Connected" ->
                     The({[done |-> s3.res = NoReason, s |-> s3]
                          : s3 \in {HandlePackets(
                                IF first.ok
                                THEN Notify(Notify([s0 EXCEPT !.auth = TRUE], "connected"),
                                            "new_mail")
                                ELSE Notify([s0 EXCEPT !.auth = TRUE], "connected"),
                                Tail(d.packets))}})
                [] first.tag = "Disconnected" ->
                     [done |-> FALSE, s |-> [s0 EXCEPT !.res = first.reason]]
                [] OTHER -> [done |-> FALSE, s |-> s0]
              : first \in {HandlePacket(Head(d.packets))}})

\* wait_for_authentication that returns Ok(()) after Connected without handling
\* the packets that came with it
AuthPacketsDropsExtraFrames(s0, d) ==
    IF ~d.ok THEN [done |-> FALSE, s |-> [s0 EXCEPT !.res = ForceCloseSocket]]
    ELSE IF d.packets = <<>> THEN [done |-> FALSE, s |-> s0]
    ELSE The({CASE first.tag = "Connected" ->
                     [done |-> TRUE,
                      s |-> IF first.ok
                            THEN Notify(Notify([s0 EXCEPT !.auth = TRUE], "connected"),
                                        "new_mail")
                            ELSE Notify([s0 EXCEPT !.auth = TRUE], "connected")]
                [] first.tag = "Disconnected" ->
                     [done |-> FALSE, s |-> [s0 EXCEPT !.res = first.reason]]
                [] OTHER ->
                     [done |-> FALSE, s |-> [s0 EXCEPT !.res = ForceCloseSocket]]
              : first \in {HandlePacket(Head(d.packets))}})

\* wait_for_authentication on what process_packets returned for the bytes of one
\* TransportRecv event, the engine's buffer being s0.codec already
AuthPackets(s0, d) ==
    IF ~d.ok THEN [done |-> FALSE, s |-> [s0 EXCEPT !.res = ForceCloseSocket]]
    ELSE IF d.packets = <<>> THEN [done |-> FALSE, s |-> s0]
    ELSE The({CASE first.tag = "Connected" ->
                     The({[done |-> s3.res = NoReason, s |-> s3]
                          : s3 \in {HandlePackets(
                                IF first.ok
                                THEN Notify(Notify([s0 EXCEPT !.auth = TRUE], "connected"),
                                            "new_mail")
                                ELSE Notify([s0 EXCEPT !.auth = TRUE], "connected"),
                                Tail(d.packets))}})
                [] first.tag = "Disconnected" ->
                     [done |-> FALSE, s |-> [s0 EXCEPT !.res = first.reason]]
                [] OTHER ->
                     [done |-> FALSE, s |-> [s0 EXCEPT !.res = ForceCloseSocket]]
              : first \in {HandlePacket(Head(d.packets))}})

\* wait_for_authentication that goes on waiting after an event that is no
\* TransportRecv
AuthEventSkipsOtherEvents(s, ev) ==
    IF ev.type # "TransportRecv"
    THEN [done |-> FALSE, s |-> s]
    ELSE The({AuthPackets([s EXCEPT !.codec = d.buffer], d)
              : d \in {ProcessPackets(s.codec \o ev.bytes)}})

\* wait_for_authentication on one event taken from proc_mailbox_chan: res is
\* NoReason while it keeps waiting; done tells that it returned Ok(()).
\* wait_for_authentication that handles the other events as start_loop does
AuthEventHandlesOtherEvents(s, ev) ==
    IF ev.type # "TransportRecv"
    THEN [done |-> FALSE, s |-> ProcessClientEvent(s, ev)]
    ELSE The({AuthPackets([s EXCEPT !.codec = d.buffer], d)
              : d \in {ProcessPackets(s.codec \o ev.bytes)}})

AuthEvent(s, ev) ==
    IF ev.type # "TransportRecv"
    THEN [done |-> FALSE, s |-> [s EXCEPT !.res = ForceCloseSocket]]
    ELSE The({AuthPackets([s EXCEPT !.codec = d.buffer], d)
              : d \in {ProcessPackets(s.codec \o ev.bytes)}})

\* -------------------------------------------------------- MoonlightClient
\* backoff returning the slot it has just stored
BackoffSleepsNewSlot(unauthorized, cur) ==
    IF unauthorized
    THEN [sleep |-> UnauthorizedBackoff, next |-> <<UnauthorizedBackoff>>]
    ELSE LET ms == IF cur = <<>> THEN 0 ELSE cur[1]
             nxt == CASE ms = 0 -> 1000
                      [] ms = 1000 -> 2500
                      [] ms = 2500 -> 5000
                      [] ms = 5000 -> 10000
                      [] ms = 10000 -> 15000
                      [] ms = 15000 -> 30000
                      [] OTHER -> 30000
         IN  [sleep |-> nxt, next |-> <<nxt>>]

\* backoff whose unauthorized arm sleeps the slot stored before
BackoffUnauthorizedSleepsOldSlot(unauthorized, cur) ==
    LET ms == IF cur = <<>> THEN 0 ELSE cur[1]
        nxt == CASE ms = 0 -> 1000
                 [] ms = 1000 -> 2500
                 [] ms = 2500 -> 5000
                 [] ms = 5000 -> 10000
                 [] ms = 10000 -> 15000
                 [] ms = 15000 -> 30000
                 [] OTHER -> 30000
    IN  IF unauthorized
        THEN [sleep |-> ms, next |-> <<UnauthorizedBackoff>>]
        ELSE [sleep |-> ms, next |-> <<nxt>>]

\* backoff(unauthorized): the sleep to take now and the value stored as next
Backoff(unauthorized, cur) ==
    IF unauthorized
    THEN [sleep |-> UnauthorizedBackoff, next |-> <<UnauthorizedBackoff>>]
    ELSE LET ms == IF cur = <<>> THEN 0 ELSE cur[1]
             nxt == CASE ms = 0 -> 1000
                      [] ms = 1000 -> 2500
                      [] ms = 2500 -> 5000
                      [] ms = 5000 -> 10000
                      [] ms = 10000 -> 15000
                      [] ms = 15000 -> 30000
                      [] OTHER -> 30000
         IN  [sleep |-> ms, next |-> <<nxt>>]

\* ClientLogic::new: the channels and fields of a new engine
FreshLogic ==
    /\ proc_mailbox_chan' = <<>>
    /\ logic_authenticated' = FALSE
    /\ pending_txns' = {}
    /\ next_txn_id' = 0
    /\ transport_write_chan' = <<>>
    /\ ping_chan' = 0
    /\ codec' = <<>>

\* the engine's value is dropped: its receiver goes, and with it the events still
\* queued and the pending entries (their reply senders)
DropLogic ==
    /\ logic_alive' = FALSE
    /\ proc_mailbox_chan' = <<>>
    /\ pending_txns' = {}
    /\ next_txn_id' = 0
    /\ ping_chan' = 0
    /\ codec' = <<>>

\* start(): while !shutdown_flag
SupHead ==
    /\ sup_pc = "head"
    /\ sup_pc' = IF shutdown_flag THEN "returned" ELSE "connect"
    /\ sleep_time' = 0
    /\ UNCHANGED <<clientVars, disconnect_reason, streak, sessions, stop_pc,
                   proc_mailbox_chan, logic_alive, logicVars, threadVars, calls,
                   unitVars>>

\* session_lifecycle: the channels, ClientLogic::new and moonlight_socket::connect,
\* which spawns the transport thread or fails
SupConnect ==
    /\ sup_pc = "connect"
    /\ FreshLogic
    /\ sessions' = Min(sessions + 1, MaxSessions)
    /\ \/ /\ logic_alive' = TRUE
          /\ socket_alive' = TRUE
          /\ socket_close' = FALSE
          /\ sup_pc' = "publish"
          /\ UNCHANGED disconnect_reason
       \/ /\ logic_alive' = FALSE
          /\ disconnect_reason' = ForceCloseSocket
          /\ sup_pc' = "cleanup"
          /\ UNCHANGED <<socket_alive, socket_close>>
    /\ UNCHANGED <<clientVars, sleep_time, streak, stop_pc, notify_chan, alloc, replies,
                   mails, timer_alive, timer_shutdown, calls, unitVars>>

\* session_lifecycle: mailbox_chan = Some(..), then wait_for_authentication puts
\* the Connect packet on transport_write_chan
SupPublish ==
    /\ sup_pc = "publish"
    /\ mailbox_chan' = TRUE
    /\ LET w == WritePacketToTransport(Logic, ConnectPkt)
       IN  /\ transport_write_chan' = w.s.tw
           /\ IF w.ok
              THEN sup_pc' = "auth" /\ UNCHANGED disconnect_reason
              ELSE sup_pc' = "close" /\ disconnect_reason' = ForceCloseSocket
    /\ UNCHANGED <<shutdown_flag, authenticated, disconnected_reason, reconnect_in,
                   sleep_time, streak, sessions, stop_pc, proc_mailbox_chan,
                   logic_alive, logic_authenticated, codec, pending_txns, next_txn_id,
                   ping_chan, notify_chan, alloc, replies, mails, threadVars, calls,
                   unitVars>>

\* where the supervisor thread goes with what the engine returned
Returned(s, ok_pc) ==
    /\ Store(s)
    /\ IF s.res = NoReason
       THEN sup_pc' = ok_pc /\ UNCHANGED disconnect_reason
       ELSE IF s.res = Panicked
       THEN sup_pc' = "unwind" /\ UNCHANGED disconnect_reason
       ELSE /\ sup_pc' = (IF ok_pc = "loop" THEN "stop_timer" ELSE "close")
            /\ disconnect_reason' = s.res

\* wait_for_authentication: recv_timeout returns Ok(client_event) and the event is
\* handled
AuthTake ==
    /\ sup_pc = "auth"
    /\ proc_mailbox_chan # <<>>
    /\ \E a \in {AuthEvent(Logic, Head(proc_mailbox_chan))} :
            Returned(a.s, IF a.done THEN "auth_ok" ELSE "auth")
    /\ proc_mailbox_chan' = Tail(proc_mailbox_chan)
    /\ UNCHANGED <<clientVars, sleep_time, streak, sessions, stop_pc, logic_alive,
                   threadVars, calls>>

\* wait_for_authentication: one event of proc_mailbox_chan.recv_timeout, the time
\* it takes left out
AuthStep == AuthTake /\ UNCHANGED unitVars

\* wait_for_authentication: recv_timeout returned Err, 10 s having passed with
\* nothing queued or every sender of the channel being gone
AuthTimeout ==
    /\ sup_pc = "auth"
    /\ proc_mailbox_chan = <<>>
    /\ sup_pc' = "close"
    /\ disconnect_reason' = ForceCloseSocket
    /\ UNCHANGED <<clientVars, sleep_time, streak, sessions, stop_pc, proc_mailbox_chan,
                   logic_alive, logicVars, threadVars, calls, unitVars>>

\* session_lifecycle, Ok(()) arm: the flags are reset and the timer thread spawned
SupAuthOk ==
    /\ sup_pc = "auth_ok"
    /\ authenticated' = TRUE
    /\ reconnect_in' = <<>>
    /\ disconnected_reason' = NoReason
    /\ streak' = <<0>>
    /\ timer_alive' = TRUE
    /\ timer_shutdown' = FALSE
    /\ sup_pc' = "loop"
    /\ UNCHANGED <<shutdown_flag, mailbox_chan, disconnect_reason, sleep_time, sessions,
                   stop_pc, proc_mailbox_chan, logic_alive, logicVars, socket_alive,
                   socket_close, calls, unitVars>>

\* start_loop: the loop guard, then one event through process_client_event
LoopStep ==
    /\ sup_pc = "loop"
    /\ IF timer_shutdown
       THEN /\ sup_pc' = "stop_timer"
            /\ disconnect_reason' = ForceCloseSocket
            /\ UNCHANGED <<proc_mailbox_chan, logicVars>>
       ELSE /\ proc_mailbox_chan # <<>>
            /\ \E s \in {ProcessClientEvent(Logic, Head(proc_mailbox_chan))} :
                    Returned(s, "loop")
            /\ proc_mailbox_chan' = Tail(proc_mailbox_chan)
    /\ UNCHANGED <<clientVars, sleep_time, streak, sessions, stop_pc, logic_alive,
                   threadVars, calls, unitVars>>

\* a panic of the engine unwinds session_lifecycle and start: the engine and the
\* senders of transport_write_chan are dropped, nothing else is cleaned up
SupUnwind ==
    /\ sup_pc = "unwind"
    /\ DropLogic
    /\ sup_pc' = "panicked"
    /\ UNCHANGED <<clientVars, disconnect_reason, sleep_time, streak, sessions, stop_pc,
                   logic_authenticated, transport_write_chan, notify_chan, alloc,
                   replies, mails, threadVars, calls, unitVars>>

\* session_lifecycle: shutdown_flag.store(true) for the timer
SupStopTimer ==
    /\ sup_pc = "stop_timer"
    /\ timer_shutdown' = TRUE
    /\ sup_pc' = "join_timer"
    /\ UNCHANGED <<clientVars, disconnect_reason, sleep_time, streak, sessions, stop_pc,
                   proc_mailbox_chan, logic_alive, logicVars, timer_alive, socket_alive,
                   socket_close, calls, unitVars>>

\* session_lifecycle: timer_proc_handle.join(); the session's flag goes out of scope
SupJoinTimer ==
    /\ sup_pc = "join_timer"
    /\ ~timer_alive
    /\ timer_shutdown' = FALSE
    /\ sup_pc' = "close"
    /\ UNCHANGED <<clientVars, disconnect_reason, sleep_time, streak, sessions, stop_pc,
                   proc_mailbox_chan, logic_alive, logicVars, timer_alive, socket_alive,
                   socket_close, calls, unitVars>>

\* session_lifecycle: socket_close()
SupClose ==
    /\ sup_pc = "close"
    /\ socket_close' = TRUE
    /\ sup_pc' = "join_socket"
    /\ UNCHANGED <<clientVars, disconnect_reason, sleep_time, streak, sessions, stop_pc,
                   proc_mailbox_chan, logic_alive, logicVars, timer_alive,
                   timer_shutdown, socket_alive, calls, unitVars>>

\* session_lifecycle that returns without socket_handle.join()
SupJoinSocketWithoutJoin ==
    /\ sup_pc = "join_socket"
    /\ DropLogic
    /\ socket_close' = FALSE
    /\ sup_pc' = "cleanup"
    /\ UNCHANGED <<clientVars, disconnect_reason, sleep_time, streak, sessions, stop_pc,
                   logic_authenticated, transport_write_chan, notify_chan, alloc,
                   replies, mails, timer_alive, timer_shutdown, socket_alive, calls,
                   unitVars>>

\* session_lifecycle: socket_handle.join(), then the return drops the engine
SupJoinSocket ==
    /\ sup_pc = "join_socket"
    /\ ~socket_alive
    /\ DropLogic
    /\ socket_close' = FALSE
    /\ sup_pc' = "cleanup"
    /\ UNCHANGED <<clientVars, disconnect_reason, sleep_time, streak, sessions, stop_pc,
                   logic_authenticated, transport_write_chan, notify_chan, alloc,
                   replies, mails, timer_alive, timer_shutdown, socket_alive, calls,
                   unitVars>>

\* start() without the disconnected notification
SupCleanupSilent ==
    /\ sup_pc = "cleanup"
    /\ disconnected_reason' = disconnect_reason
    /\ mailbox_chan' = FALSE
    /\ authenticated' = FALSE
    /\ LET b == Backoff(disconnect_reason.kind = "Unauthorized", reconnect_in)
       IN  /\ sleep_time' = b.sleep
           /\ reconnect_in' = b.next
    /\ streak' = IF disconnect_reason.kind = "Unauthorized" \/ streak = <<>> THEN <<>>
                 ELSE <<Min(streak[1] + 1, MaxStreak)>>
    /\ notify_chan' = notify_chan
    /\ sup_pc' = IF shutdown_flag THEN "head" ELSE "sleep"
    /\ disconnect_reason' = NoReason
    /\ logic_authenticated' = FALSE
    /\ UNCHANGED <<shutdown_flag, sessions, stop_pc, proc_mailbox_chan, logic_alive,
                   pending_txns, next_txn_id, transport_write_chan, ping_chan, codec,
                   alloc, replies, mails, threadVars, calls, unitVars>>

\* start(): the session's cleanup, backoff(), the disconnected notification and
\* the test of shutdown_flag before the sleep
SupCleanup ==
    /\ sup_pc = "cleanup"
    /\ disconnected_reason' = disconnect_reason
    /\ mailbox_chan' = FALSE
    /\ authenticated' = FALSE
    /\ LET b == Backoff(disconnect_reason.kind = "Unauthorized", reconnect_in)
       IN  /\ sleep_time' = b.sleep
           /\ reconnect_in' = b.next
    /\ streak' = IF disconnect_reason.kind = "Unauthorized" \/ streak = <<>> THEN <<>>
                 ELSE <<Min(streak[1] + 1, MaxStreak)>>
    /\ notify_chan' = Notify(Logic, "disconnected").notify
    /\ sup_pc' = IF shutdown_flag THEN "head" ELSE "sleep"
    /\ disconnect_reason' = NoReason
    /\ logic_authenticated' = FALSE
    /\ UNCHANGED <<shutdown_flag, sessions, stop_pc, proc_mailbox_chan, logic_alive,
                   pending_txns, next_txn_id, transport_write_chan, ping_chan, codec,
                   alloc, replies, mails, threadVars, calls, unitVars>>

\* start(): sleep(sleep_time) is over
SupWake ==
    /\ sup_pc = "sleep"
    /\ sup_pc' = "head"
    /\ UNCHANGED <<clientVars, disconnect_reason, sleep_time, streak, sessions, stop_pc,
                   proc_mailbox_chan, logic_alive, logicVars, threadVars, calls,
                   unitVars>>

\* stop(): shutdown_flag.store(true)
StopFlag ==
    /\ stop_pc = "idle"
    /\ shutdown_flag' = TRUE
    /\ stop_pc' = "flagged"
    /\ UNCHANGED <<sup_pc, authenticated, disconnected_reason, reconnect_in,
                   mailbox_chan, disconnect_reason, sleep_time, streak, sessions,
                   proc_mailbox_chan, logic_alive, logicVars, threadVars, calls,
                   unitVars>>

\* stop(): TransportClose to the session mailbox_chan holds, if it holds one
StopPost ==
    /\ stop_pc = "flagged"
    /\ stop_pc' = "done"
    /\ proc_mailbox_chan' = IF mailbox_chan /\ logic_alive
                            THEN Append(proc_mailbox_chan, TransportClose)
                            ELSE proc_mailbox_chan
    /\ UNCHANGED <<supVars, logic_alive, logicVars, threadVars, calls, unitVars>>

\* send_cmd that lets a failed post pass: the caller is told nothing
SendCmdIgnoresFailedPost(c, cmd) ==
    /\ calls[c].how = "idle"
    /\ \A b \in Chans : b < c => calls[b].how # "idle"
    /\ Len(proc_mailbox_chan) < MaxQueue
    /\ Len(transport_write_chan) < MaxWrites
    /\ IF mailbox_chan
       THEN /\ proc_mailbox_chan' = IF logic_alive
                                    THEN Append(proc_mailbox_chan, Cmd([cmd EXCEPT !.chan = c]))
                                    ELSE proc_mailbox_chan
            /\ calls' = [calls EXCEPT ![c] =
                            [cmd |-> cmd, how |-> IF logic_alive THEN "queued" ELSE "sendfail"]]
            /\ UNCHANGED replies
       ELSE /\ replies' = [replies EXCEPT ![c] =
                              Append(@, [val |-> "Err:mailbox write failed", fid |-> <<>>])]
            /\ calls' = [calls EXCEPT ![c] = [cmd |-> cmd, how |-> "nochan"]]
            /\ UNCHANGED proc_mailbox_chan
    /\ UNCHANGED <<supVars, stop_pc, logic_alive, logic_authenticated, codec,
                   pending_txns, next_txn_id, transport_write_chan, ping_chan,
                   notify_chan, alloc, mails, threadVars, unitVars>>

\* send_cmd(cmd) with a fresh reply channel c. Calls are numbered in the order
\* they are made, and are made while proc_mailbox_chan and transport_write_chan
\* hold fewer than MaxQueue and MaxWrites messages.
SendCmd(c, cmd) ==
    /\ calls[c].how = "idle"
    /\ \A b \in Chans : b < c => calls[b].how # "idle"
    /\ Len(proc_mailbox_chan) < MaxQueue
    /\ Len(transport_write_chan) < MaxWrites
    /\ IF mailbox_chan /\ logic_alive
       THEN /\ proc_mailbox_chan' = Append(proc_mailbox_chan, Cmd([cmd EXCEPT !.chan = c]))
            /\ calls' = [calls EXCEPT ![c] = [cmd |-> cmd, how |-> "queued"]]
            /\ UNCHANGED replies
       ELSE /\ replies' = [replies EXCEPT ![c] =
                              Append(@, [val |-> "Err:mailbox write failed", fid |-> <<>>])]
            /\ calls' = [calls EXCEPT ![c] =
                            [cmd |-> cmd, how |-> IF mailbox_chan THEN "sendfail" ELSE "nochan"]]
            /\ UNCHANGED proc_mailbox_chan
    /\ UNCHANGED <<supVars, stop_pc, logic_alive, logic_authenticated, codec,
                   pending_txns, next_txn_id, transport_write_chan, ping_chan,
                   notify_chan, alloc, mails, threadVars, unitVars>>

\* timer_logic: mailbox.send(Refresh) or mailbox.send(HeartbeatTick), while
\* proc_mailbox_chan holds fewer than MaxQueue events
TimerPost(ev) ==
    /\ timer_alive /\ ~timer_shutdown /\ logic_alive
    /\ Len(proc_mailbox_chan) < MaxQueue
    /\ ev = HeartbeatTick => Len(transport_write_chan) < MaxWrites
    /\ proc_mailbox_chan' = Append(proc_mailbox_chan, ev)
    /\ UNCHANGED <<supVars, stop_pc, logic_alive, logicVars, threadVars, calls,
                   unitVars>>

\* timer_logic: ping_chan.try_recv() takes one heartbeat ack
TimerAck ==
    /\ timer_alive /\ ~timer_shutdown
    /\ ping_chan > 0
    /\ ping_chan' = ping_chan - 1
    /\ UNCHANGED <<supVars, stop_pc, proc_mailbox_chan, logic_alive,
                   logic_authenticated, codec, pending_txns, next_txn_id,
                   transport_write_chan, notify_chan, alloc, replies, mails, threadVars,
                   calls, unitVars>>

\* timer_logic: no ack for 90 s (none is waiting in ping_chan): TransportClose is
\* posted and the session's shutdown flag set
TimerDead ==
    /\ timer_alive /\ ~timer_shutdown
    /\ ping_chan = 0
    /\ proc_mailbox_chan' = IF logic_alive THEN Append(proc_mailbox_chan, TransportClose)
                            ELSE proc_mailbox_chan
    /\ timer_shutdown' = TRUE
    /\ UNCHANGED <<supVars, stop_pc, logic_alive, logicVars, timer_alive, socket_alive,
                   socket_close, calls, unitVars>>

\* timer_proc: the loop ends on the shutdown flag
TimerExit ==
    /\ timer_alive /\ timer_shutdown
    /\ timer_alive' = FALSE
    /\ UNCHANGED <<supVars, stop_pc, proc_mailbox_chan, logic_alive, logicVars,
                   timer_shutdown, socket_alive, socket_close, calls, unitVars>>

\* transport thread, pull_bytes_from_socket: bytes read become a TransportRecv
SocketRecv(bytes) ==
    /\ socket_alive /\ ~socket_close /\ logic_alive
    /\ Len(proc_mailbox_chan) < MaxQueue
    /\ proc_mailbox_chan' = Append(proc_mailbox_chan, TransportRecv(bytes))
    /\ UNCHANGED <<supVars, stop_pc, logic_alive, logicVars, threadVars, calls,
                   unitVars>>

\* transport thread, push_bytes_to_socket: one queued message is written out
SocketWrite ==
    /\ socket_alive
    /\ transport_write_chan # <<>>
    /\ transport_write_chan' = Tail(transport_write_chan)
    /\ UNCHANGED <<supVars, stop_pc, proc_mailbox_chan, logic_alive,
                   logic_authenticated, codec, pending_txns, next_txn_id, ping_chan,
                   notify_chan, alloc, replies, mails, threadVars, calls, unitVars>>

\* the transport thread ends: it posts TransportClose and drops its receiver of
\* transport_write_chan
SocketEnd ==
    /\ socket_alive' = FALSE
    /\ transport_write_chan' = <<>>
    /\ proc_mailbox_chan' = IF logic_alive THEN Append(proc_mailbox_chan, TransportClose)
                            ELSE proc_mailbox_chan
    /\ UNCHANGED <<supVars, stop_pc, logic_alive, logic_authenticated, codec,
                   pending_txns, next_txn_id, ping_chan, notify_chan, alloc, replies,
                   mails, timer_alive, timer_shutdown, socket_close, calls, unitVars>>

\* transport thread: the loop guard sees the close flag, or the engine's senders
\* of transport_write_chan are gone (try_recv: Disconnected)
SocketExit ==
    /\ socket_alive
    /\ socket_close \/ sup_pc = "panicked"
    /\ SocketEnd

\* transport thread: the read returns 0 bytes or an I/O error, or a write fails
SocketFail ==
    /\ socket_alive /\ ~socket_close /\ logic_alive
    /\ SocketEnd

\* the clock advances by TickDur
Tick ==
    /\ \E e \in pending_txns : e.age < AgeCap
    /\ pending_txns' = {[e EXCEPT !.age = Min(@ + TickDur, AgeCap)] : e \in pending_txns}
    /\ UNCHANGED <<supVars, stop_pc, proc_mailbox_chan, logic_alive,
                   logic_authenticated, codec, next_txn_id, transport_write_chan,
                   ping_chan, notify_chan, alloc, replies, mails, threadVars, calls,
                   unitVars>>

\* ----------------------------------------------------------------- inputs
NoCall == [cmd |-> NoCmd, how |-> "idle"]
SendPulseCmd(name_len) == [kind |-> "SendPulse", key |-> 0, name_len |-> name_len, chan |-> 0]
MailboxNextCmd == [kind |-> "MailboxNext", key |-> 0, name_len |-> 0, chan |-> 0]
MailOpCmd(pulse_id) == [kind |-> "MailOp", key |-> pulse_id, name_len |-> 0, chan |-> 0]

Reasons == 0..MaxReason
RespFrames ==
    {pulse_resp_success(id) : id \in Ids}
    \cup {pulse_resp_error(id, 0) : id \in Ids}
    \cup {mailbox_next_resp_empty(id) : id \in Ids}
    \cup {mailbox_next_resp_header_only(id, 1, 0, <<>>) : id \in Ids}
    \cup {mailbox_next_resp_failed(id) : id \in Ids}
    \cup {ack_mail_resp(sz, id, 1) : sz \in {0, 1}, id \in Ids}
    \cup {ack_mail_resp_failed(id, 1) : id \in Ids}
SessionFrames ==
    {connected(m, FALSE) : m \in BOOLEAN}
    \cup {unauthorized_packet(r) : r \in Reasons}
    \cup {connect_failed(r) : r \in Reasons}
    \cup {server_close_connection, heartbeat_ack(TRUE), new_mail_event(0, 0), heartbeat}
\* bytes that begin with no packet tag
BadTag == <<255, 0>>

RECURSIVE EncodeAll(_)
\* the encodings of a sequence of packets, one after the other
EncodeAll(packets) ==
    IF packets = <<>> THEN <<>> ELSE Encode(Head(packets)) \o EncodeAll(Tail(packets))

\* ------------------------------------------------ the engine in steady state
EngineCmds ==
    {SendPulseCmd(n) : n \in {MaxNameLen, MaxNameLen + 1}} \cup {MailboxNextCmd}
    \cup {MailOpCmd(k) : k \in Ids}
EngineBatches == {<<>>, BadTag} \cup {Encode(f) : f \in RespFrames \cup SessionFrames}

\* credentials of the stated form
ValidCreds ==
    [fleet_id |-> Rep(65, FleetIdLen), device_id |-> Rep(65, DeviceIdLen),
     device_secret |-> FosDash \o Rep(65, DeviceSecretLen - Len(FosDash))]

\* timer_proc before its loop: the three instants are now, last_heartbeat_sent
\* taken before last_heartbeat_ack. Each instant is kept as the time elapsed
\* since it, and sent_after_ack is last_heartbeat_sent > last_heartbeat_ack.
TimerStart ==
    [last_refresh_sent |-> 0, last_heartbeat_sent |-> 0, last_heartbeat_ack |-> 0,
     sent_after_ack |-> FALSE]

\* no credentials under validation, no byte stream, the timer not started
CredsIdle == creds = ValidCreds /\ cred_result = <<>>
StreamIdle ==
    /\ stream = <<>>
    /\ tail = <<>>
    /\ wire = <<>>
    /\ decoded = <<>>
    /\ codec_err = FALSE
TimerIdle == timer = TimerStart /\ ack_idle = 0
\* wait_for_authentication on entry
ClockStart == [wait |-> 0, since |-> 0]
ClockIdle == auth_clock = ClockStart

\* MoonlightClient::new: the three mutexes unlocked; the thread that runs start is
\* at the head of its loop and no other thread is inside a call
Mutexes == {"mailbox_chan", "disconnected_reason", "reconnect_in"}
Threads == {"start", "send_cmd", "stop", "status", "connected"}
LocksStart ==
    [owner |-> [m \in Mutexes |-> "none"],
     at |-> [t \in Threads |-> IF t = "start" THEN "head" ELSE "idle"]]
LocksIdle == locks = LocksStart
\* the transport thread as spawned, with msgs the messages the engine will send
SockStart(msgs) ==
    [pc |-> "head", pending_buf |-> <<>>, pending_offset |-> 0, pending_age |-> 0,
     bytes_written |-> 0, messages_completed |-> 0, msgs |-> msgs, sent |-> 0,
     write_chan |-> <<>>, open |-> TRUE, out |-> <<>>]
SockIdle == sock = SockStart(<<>>)

FreshRest ==
    /\ shutdown_flag = FALSE
    /\ disconnected_reason = NoReason
    /\ reconnect_in = <<>>
    /\ disconnect_reason = NoReason
    /\ sleep_time = 0
    /\ streak = <<0>>
    /\ sessions = 0
    /\ stop_pc = "idle"
    /\ proc_mailbox_chan = <<>>
    /\ transport_write_chan = <<>>
    /\ ping_chan = 0
    /\ notify_chan = <<>>
    /\ timer_shutdown = FALSE
    /\ socket_close = FALSE
    /\ calls = [c \in Chans |-> NoCall]
    /\ alloc = [c \in Chans |-> <<>>]
    /\ replies = [c \in Chans |-> <<>>]
    /\ codec = <<>>
    /\ mails = [c \in Chans |-> <<>>]

\* ClientLogic::new: an empty pending table and the counter at 0
FreshState ==
    /\ FreshRest
    /\ pending_txns = {}
    /\ next_txn_id = 0

Fresh == FreshState /\ CredsIdle /\ StreamIdle /\ TimerIdle /\ ClockIdle /\ LocksIdle /\ SockIdle

\* a session that has just authenticated and entered start_loop
EngineInit ==
    /\ Fresh
    /\ sup_pc = "loop"
    /\ authenticated = TRUE
    /\ mailbox_chan = TRUE
    /\ logic_alive = TRUE
    /\ logic_authenticated = TRUE
    /\ timer_alive = TRUE
    /\ socket_alive = TRUE

\* inputs arrive while start_loop runs; what it does to them is LoopStep
EngineNext ==
    \/ /\ sup_pc = "loop"
       /\ \/ \E c \in Chans, cmd \in EngineCmds : SendCmd(c, cmd)
          \/ \E b \in EngineBatches : SocketRecv(b)
          \/ TimerPost(Refresh)
          \/ TimerPost(HeartbeatTick)
    \/ SocketWrite
    \/ LoopStep
    \/ Tick

EngineSpec == EngineInit /\ [][EngineNext]_vars

\* ------------------------------------------------------- the whole program
SysCmds == {SendPulseCmd(MaxNameLen), MailboxNextCmd, MailOpCmd(0)}
SysBatches ==
    {Encode(connected(FALSE, FALSE)), Encode(unauthorized_packet(0)),
     Encode(heartbeat_ack(TRUE)), Encode(pulse_resp_success(0))}

NoSession ==
    /\ sup_pc = "head"
    /\ authenticated = FALSE
    /\ mailbox_chan = FALSE
    /\ logic_alive = FALSE
    /\ logic_authenticated = FALSE
    /\ timer_alive = FALSE
    /\ socket_alive = FALSE

Init == Fresh /\ NoSession

\* start() makes at most MaxSessions calls of session_lifecycle
MayConnect == sup_pc = "head" => shutdown_flag \/ sessions < MaxSessions

Next ==
    \/ MayConnect /\ SupHead
    \/ SupConnect
    \/ SupPublish
    \/ AuthStep
    \/ AuthTimeout
    \/ SupAuthOk
    \/ LoopStep
    \/ SupUnwind
    \/ SupStopTimer
    \/ SupJoinTimer
    \/ SupClose
    \/ SupJoinSocket
    \/ SupCleanup
    \/ SupWake
    \/ StopFlag
    \/ StopPost
    \/ \E c \in Chans, cmd \in SysCmds : SendCmd(c, cmd)
    \/ \E b \in SysBatches : SocketRecv(b)
    \/ TimerPost(Refresh)
    \/ TimerPost(HeartbeatTick)
    \/ TimerAck
    \/ TimerDead
    \/ TimerExit
    \/ SocketWrite
    \/ SocketExit
    \/ SocketFail
    \/ Tick

Spec == Init /\ [][Next]_vars

\* ------------------------------------------- the whole program, scheduled
\* The threads keep running: the supervisor thread takes its next step, sleeps and
\* timeouts end, the clock advances, the timer thread keeps sending Refresh, and
\* the timer and transport threads leave their loops once told to.
SupStep ==
    \/ MayConnect /\ SupHead
    \/ SupConnect \/ SupPublish \/ AuthStep \/ AuthTimeout \/ SupAuthOk \/ LoopStep
    \/ SupUnwind \/ SupStopTimer \/ SupJoinTimer \/ SupClose \/ SupJoinSocket
    \/ SupCleanup \/ SupWake

LiveCmds == {SendPulseCmd(MaxNameLen), MailOpCmd(0)}
LiveBatches ==
    {Encode(connected(FALSE, FALSE)), Encode(heartbeat_ack(TRUE)),
     Encode(pulse_resp_success(0))}

LiveNext ==
    \/ SupStep
    \/ StopFlag
    \/ StopPost
    \/ \E cmd \in LiveCmds : SendCmd(1, cmd)
    \/ \E b \in LiveBatches : SocketRecv(b)
    \/ TimerPost(Refresh)
    \/ TimerPost(HeartbeatTick)
    \/ TimerAck
    \/ TimerDead
    \/ TimerExit
    \/ SocketWrite
    \/ SocketExit
    \/ SocketFail
    \/ Tick

FairSpec ==
    /\ Init
    /\ [][LiveNext]_vars
    /\ WF_vars(SupStep)
    /\ WF_vars(StopPost)
    /\ WF_vars(Tick)
    /\ SF_vars(TimerPost(Refresh))
    /\ WF_vars(TimerExit)
    /\ WF_vars(SocketExit)

\* ------------------------------------------ the supervisor and its backoff
\* Sessions fail to connect, are refused, or authenticate and are closed by the
\* server, any number of times; nobody calls send_cmd or stop.
BackoffBatches ==
    {Encode(connected(FALSE, FALSE)),
     EncodeAll(<<connected(TRUE, FALSE), server_close_connection>>),
     Encode(unauthorized_packet(0)), Encode(connect_failed(0)),
     Encode(server_close_connection)}

BackoffNext ==
    \/ SupHead
    \/ SupConnect
    \/ SupPublish
    \/ AuthStep
    \/ AuthTimeout
    \/ SupAuthOk
    \/ LoopStep
    \/ SupUnwind
    \/ SupStopTimer
    \/ SupJoinTimer
    \/ SupClose
    \/ SupJoinSocket
    \/ SupCleanup
    \/ SupWake
    \/ \E b \in BackoffBatches : SocketRecv(b)
    \/ TimerExit
    \/ SocketExit

BackoffSpec == Init /\ [][BackoffNext]_vars

\* ----------------------------------- a ClientLogic from its authentication
\* The engine of one session, made by ClientLogic::new with a live transport,
\* runs wait_for_authentication and then start_loop. Whoever holds a sender of
\* proc_mailbox_chan sends it events: of any kind while it authenticates, bytes
\* of any kind afterwards.
AuthBatches ==
    {Encode(p) : p \in SessionFrames \cup {client_close_connection, pulse_resp_success(0)}}
    \cup {EncodeAll(<<connected(FALSE, FALSE), p>>)
            : p \in {heartbeat_ack(TRUE), new_mail_event(1, 0), server_close_connection,
                     unauthorized_packet(0), connected(FALSE, FALSE)}}
    \cup {EncodeAll(<<connected(TRUE, FALSE), heartbeat_ack(TRUE), p>>)
            : p \in {heartbeat_ack(TRUE), server_close_connection}}
    \cup {EncodeAll(<<p, q>>)
            : p \in {server_close_connection} \cup {unauthorized_packet(r) : r \in Reasons}
                        \cup {connect_failed(r) : r \in Reasons},
              q \in {heartbeat_ack(TRUE), new_mail_event(1, 0)}}
    \cup {EncodeAll(<<heartbeat_ack(TRUE), server_close_connection, heartbeat_ack(TRUE)>>)}
    \cup {<<3>>, <<2>>, <<0>>, BadTag}

AuthEvents ==
    {Refresh, HeartbeatTick, TransportClose, Cmd([MailOpCmd(0) EXCEPT !.chan = 1])}
    \cup {TransportRecv(b) : b \in AuthBatches}

AuthInit ==
    /\ Fresh
    /\ sup_pc = "publish"
    /\ authenticated = FALSE
    /\ mailbox_chan = FALSE
    /\ logic_alive = TRUE
    /\ logic_authenticated = FALSE
    /\ timer_alive = FALSE
    /\ socket_alive = TRUE

\* proc_mailbox_chan's sender: send(ev)
MailboxSend(ev) ==
    /\ sup_pc \in {"auth", "loop"}
    /\ sup_pc = "loop" => ev.type = "TransportRecv"
    /\ Len(codec) + Len(ev.bytes) <= MaxBuffer \/ codec = <<>>
    /\ logic_alive
    /\ Len(proc_mailbox_chan) < MaxQueue
    /\ proc_mailbox_chan' = Append(proc_mailbox_chan, ev)
    /\ UNCHANGED <<supVars, stop_pc, logic_alive, logicVars, threadVars, calls,
                   unitVars>>

AuthNext ==
    \/ SupPublish
    \/ \E ev \in AuthEvents : MailboxSend(ev)
    \/ SocketFail
    \/ AuthStep
    \/ AuthTimeout
    \/ SupAuthOk
    \/ LoopStep
    \/ SupUnwind
    \/ SocketWrite

AuthSpec == AuthInit /\ [][AuthNext]_vars

\* ------------------------------------------- the engine fetching its mail
\* The engine in steady state receives MailboxNext commands and MailboxNextResp
\* packets of every shape: with and without a mail, header-only and full, the
\* name and the payload well-formed or not.
NotUtf8 == <<255>>
\* the text {, which begins a JSON value and does not end it
OpenBrace == <<123>>
MailNames == {<<97>>, NotUtf8}
MailPayloads == {<<>>, JsonSeven, JsonNull, OpenBrace, NotUtf8}
MailPackets ==
    {mailbox_next_resp_empty(id) : id \in Ids}
    \cup {mailbox_next_resp_failed(id) : id \in Ids}
    \cup {[mailbox_next_resp_failed(id) EXCEPT !.mailbox_size = 1] : id \in Ids}
    \cup {mailbox_next_resp_header_only(id, 1, 258, n) : id \in Ids, n \in MailNames}
    \cup {mailbox_next_resp_full(id, 1, 258, n, pl)
            : id \in Ids, n \in MailNames, pl \in MailPayloads}
MailBatches == {Encode(p) : p \in MailPackets}

MailNext ==
    \/ \E c \in Chans : SendCmd(c, MailboxNextCmd)
    \/ \E b \in MailBatches : SocketRecv(b)
    \/ LoopStep
    \/ SocketWrite

MailSpec == EngineInit /\ [][MailNext]_vars

\* ---------------------------------------------------- the timer by itself
\* timer_logic that takes the time since the last heartbeat was sent for the
\* time since the last ack
TimerLogicDeadlineOnSent(t, ping) ==
    LET ack == IF ping > 0 THEN 0 ELSE t.last_heartbeat_ack
        tick == t.last_heartbeat_sent >= HeartbeatEvery
        sent1 == IF tick THEN 0 ELSE t.last_heartbeat_sent
        after1 == tick \/ (t.sent_after_ack /\ ping = 0)
        retry == sent1 >= HeartbeatRetry /\ after1
        close == t.last_heartbeat_sent >= AckDeadline
        refresh == t.last_refresh_sent >= RefreshEvery
    IN  [timer |-> [last_refresh_sent |-> IF refresh THEN 0 ELSE t.last_refresh_sent,
                    last_heartbeat_sent |-> IF retry THEN 0 ELSE sent1,
                    last_heartbeat_ack |-> ack,
                    sent_after_ack |-> after1],
         posts |-> (IF tick \/ retry THEN <<HeartbeatTick>> ELSE <<>>)
                   \o (IF close THEN <<TransportClose>> ELSE <<>>)
                   \o (IF refresh THEN <<Refresh>> ELSE <<>>),
         shutdown |-> close,
         ping |-> IF ping > 0 THEN ping - 1 ELSE 0]

\* timer_logic that sends the heartbeat again every 5 s whether or not the last
\* one was acknowledged
TimerLogicRetriesAcked(t, ping) ==
    LET ack == IF ping > 0 THEN 0 ELSE t.last_heartbeat_ack
        tick == t.last_heartbeat_sent >= HeartbeatEvery
        sent1 == IF tick THEN 0 ELSE t.last_heartbeat_sent
        after1 == tick \/ (t.sent_after_ack /\ ping = 0)
        retry == sent1 >= HeartbeatRetry
        close == ack >= AckDeadline
        refresh == t.last_refresh_sent >= RefreshEvery
    IN  [timer |-> [last_refresh_sent |-> IF refresh THEN 0 ELSE t.last_refresh_sent,
                    last_heartbeat_sent |-> IF retry THEN 0 ELSE sent1,
                    last_heartbeat_ack |-> ack,
                    sent_after_ack |-> after1 \/ retry],
         posts |-> (IF tick \/ retry THEN <<HeartbeatTick>> ELSE <<>>)
                   \o (IF close THEN <<TransportClose>> ELSE <<>>)
                   \o (IF refresh THEN <<Refresh>> ELSE <<>>),
         shutdown |-> close,
         ping |-> IF ping > 0 THEN ping - 1 ELSE 0]

\* timer_logic on the timer's instants t with ping acks waiting in ping_chan:
\* the instants after the call, the events it posts in their order, whether it
\* sets the shutdown flag, and the acks left in ping_chan
TimerLogic(t, ping) ==
    LET ack == IF ping > 0 THEN 0 ELSE t.last_heartbeat_ack
        tick == t.last_heartbeat_sent >= HeartbeatEvery
        sent1 == IF tick THEN 0 ELSE t.last_heartbeat_sent
        after1 == tick \/ (t.sent_after_ack /\ ping = 0)
        retry == sent1 >= HeartbeatRetry /\ after1
        close == ack >= AckDeadline
        refresh == t.last_refresh_sent >= RefreshEvery
    IN  [timer |-> [last_refresh_sent |-> IF refresh THEN 0 ELSE t.last_refresh_sent,
                    last_heartbeat_sent |-> IF retry THEN 0 ELSE sent1,
                    last_heartbeat_ack |-> ack,
                    sent_after_ack |-> after1],
         posts |-> (IF tick \/ retry THEN <<HeartbeatTick>> ELSE <<>>)
                   \o (IF close THEN <<TransportClose>> ELSE <<>>)
                   \o (IF refresh THEN <<Refresh>> ELSE <<>>),
         shutdown |-> close,
         ping |-> IF ping > 0 THEN ping - 1 ELSE 0]

\* t after sleep(d)
Slept(t, d) ==
    [t EXCEPT !.last_refresh_sent = @ + d, !.last_heartbeat_sent = @ + d,
              !.last_heartbeat_ack = @ + d]

\* timer_proc: one turn of its loop, timer_logic and the sleep, taken when the
\* receiver of the mailbox has caught up with the events posted before
TimerProc ==
    /\ timer_alive /\ ~timer_shutdown
    /\ proc_mailbox_chan = <<>>
    /\ \E r \in {TimerLogic(timer, ping_chan)} :
            /\ timer' = Slept(r.timer, TimerSleep)
            /\ proc_mailbox_chan' = r.posts
            /\ timer_shutdown' = r.shutdown
            /\ ping_chan' = r.ping
    /\ ack_idle' = ack_idle + TimerSleep
    /\ UNCHANGED <<supVars, stop_pc, logic_alive, logic_authenticated, codec,
                   pending_txns, next_txn_id, transport_write_chan, notify_chan,
                   alloc, replies, mails, timer_alive, socket_alive, socket_close,
                   calls, creds, cred_result, stream, tail, wire, decoded, codec_err,
                   auth_clock, sock, locks>>

\* the receiver of the mailbox takes an event; a HeartbeatTick is answered by an
\* ack on ping_chan (ping_tx.send(())) or is not
MailboxRecv(answered) ==
    /\ proc_mailbox_chan # <<>>
    /\ proc_mailbox_chan' = Tail(proc_mailbox_chan)
    /\ IF answered /\ Head(proc_mailbox_chan) = HeartbeatTick /\ ping_chan < MaxPing
       THEN ping_chan' = ping_chan + 1 /\ ack_idle' = 0
       ELSE UNCHANGED <<ping_chan, ack_idle>>
    /\ UNCHANGED <<supVars, stop_pc, logic_alive, logic_authenticated, codec,
                   pending_txns, next_txn_id, transport_write_chan, notify_chan,
                   alloc, replies, mails, threadVars, calls, creds, cred_result,
                   stream, tail, wire, decoded, codec_err, timer, auth_clock, sock, locks>>

TimerNext ==
    \/ TimerProc
    \/ \E answered \in BOOLEAN : MailboxRecv(answered)

TimerSpec == EngineInit /\ [][TimerNext]_vars

\* ------------------------------------------- the engine with a filled table
\* The engine in start_loop after earlier callers' MailOp commands for the mails
\* in keys were accepted and are unanswered, and after next commands took a
\* txn_id and were answered. Those callers' reply channels are not followed (0).
EarlierMailOps(keys) == {[id |-> k, chan |-> 0, age |-> 0] : k \in keys}

TxnInit ==
    /\ FreshRest /\ CredsIdle /\ StreamIdle /\ TimerIdle /\ ClockIdle /\ LocksIdle /\ SockIdle
    /\ pending_txns \in {EarlierMailOps(keys) : keys \in SUBSET (0..MaxKey)}
    /\ next_txn_id \in 0..MaxKey
    /\ sup_pc = "loop"
    /\ authenticated = TRUE
    /\ mailbox_chan = TRUE
    /\ logic_alive = TRUE
    /\ logic_authenticated = TRUE
    /\ timer_alive = TRUE
    /\ socket_alive = TRUE

TxnCmds ==
    {SendPulseCmd(MaxNameLen), MailboxNextCmd} \cup {MailOpCmd(k) : k \in 0..MaxKey}

TxnNext ==
    \/ /\ sup_pc = "loop"
       /\ \E c \in Chans, cmd \in TxnCmds : SendCmd(c, cmd)
    \/ SocketWrite
    \/ LoopStep

TxnSpec == TxnInit /\ [][TxnNext]_vars

\* ------------------------------------------- the mutexes of MoonlightClient
\* The thread that runs start and the threads that call send_cmd, stop, status
\* and connected, at the grain of one step per lock(), per drop of a guard, per
\* blocking operation and per atomic load or store. A session is kept only as
\* the places where start blocks and the reason the session ends with.
lockRest == <<sup_pc, sleep_time, streak, sessions, stop_pc, proc_mailbox_chan,
              logic_alive, logicVars, threadVars, calls, creds, cred_result, stream,
              tail, wire, decoded, codec_err, timer, ack_idle, auth_clock, sock>>

\* the reasons a session ends with
EndReasons == {NormalDisconnect, Unauthorized(0), ConnectFailed(0), ForceCloseSocket}

\* thread t goes from one place to the next
Move(t, from, to) ==
    /\ locks.at[t] = from
    /\ locks' = [locks EXCEPT !.at[t] = to]

\* mutex.lock(): t gets the guard once no thread holds it, and waits until then
Lock(t, m, from, to) ==
    /\ locks.at[t] = from
    /\ locks.owner[m] = "none"
    /\ locks' = [locks EXCEPT !.owner[m] = t, !.at[t] = to]

\* the guard of m goes out of scope
Unlock(t, m, from, to) ==
    /\ locks.at[t] = from
    /\ locks.owner[m] = t
    /\ locks' = [locks EXCEPT !.owner[m] = "none", !.at[t] = to]

\* session_lifecycle after wait_for_authentication returned Ok, with the guard of
\* reconnect_in kept until the end of the block
ResetOnAuthKeepsGuard ==
    \/ /\ Lock("start", "reconnect_in", "reset_reconnect", "reset_reason")
       /\ UNCHANGED <<clientVars, disconnect_reason>>
    \/ /\ Lock("start", "disconnected_reason", "reset_reason", "reset_reason_set")
       /\ UNCHANGED <<clientVars, disconnect_reason>>
    \/ /\ locks.at["start"] = "reset_reason_set"
       /\ locks' = [locks EXCEPT !.owner["reconnect_in"] = "none",
                                 !.owner["disconnected_reason"] = "none",
                                 !.at["start"] = "loop"]
       /\ reconnect_in' = <<>>
       /\ disconnected_reason' = NoReason
       /\ UNCHANGED <<shutdown_flag, authenticated, mailbox_chan, disconnect_reason>>

\* session_lifecycle after wait_for_authentication returned Ok:
\* *self.reconnect_in.lock().unwrap() = None; *self.disconnected_reason.lock().unwrap() = None;
\* each guard is a temporary of its statement
ResetOnAuth ==
    \/ /\ Lock("start", "reconnect_in", "reset_reconnect", "reset_reconnect_set")
       /\ UNCHANGED <<clientVars, disconnect_reason>>
    \/ /\ Unlock("start", "reconnect_in", "reset_reconnect_set", "reset_reason")
       /\ reconnect_in' = <<>>
       /\ UNCHANGED <<shutdown_flag, authenticated, disconnected_reason, mailbox_chan,
                      disconnect_reason>>
    \/ /\ Lock("start", "disconnected_reason", "reset_reason", "reset_reason_set")
       /\ UNCHANGED <<clientVars, disconnect_reason>>
    \/ /\ Unlock("start", "disconnected_reason", "reset_reason_set", "loop")
       /\ disconnected_reason' = NoReason
       /\ UNCHANGED <<shutdown_flag, authenticated, reconnect_in, mailbox_chan,
                      disconnect_reason>>

\* session_lifecycle: moonlight_socket::connect, the store of the sender in
\* mailbox_chan, wait_for_authentication, start_loop and the joins
SessionLifecycle ==
    \/ /\ Move("start", "connect", "publish")
       /\ UNCHANGED <<clientVars, disconnect_reason>>
    \/ /\ Move("start", "connect", "store_reason")
       /\ disconnect_reason' = ForceCloseSocket
       /\ UNCHANGED clientVars
    \/ /\ Lock("start", "mailbox_chan", "publish", "publish_set")
       /\ UNCHANGED <<clientVars, disconnect_reason>>
    \/ /\ Unlock("start", "mailbox_chan", "publish_set", "auth")
       /\ mailbox_chan' = TRUE
       /\ UNCHANGED <<shutdown_flag, authenticated, disconnected_reason, reconnect_in,
                      disconnect_reason>>
    \/ /\ Move("start", "auth", "reset_reconnect")
       /\ authenticated' = TRUE
       /\ UNCHANGED <<shutdown_flag, disconnected_reason, reconnect_in, mailbox_chan,
                      disconnect_reason>>
    \/ /\ Move("start", "auth", "close")
       /\ disconnect_reason' \in EndReasons
       /\ UNCHANGED clientVars
    \/ /\ Move("start", "loop", "join_timer")
       /\ disconnect_reason' \in EndReasons
       /\ UNCHANGED clientVars
    \/ /\ Move("start", "join_timer", "close")
       /\ UNCHANGED <<clientVars, disconnect_reason>>
    \/ /\ Move("start", "close", "store_reason")
       /\ UNCHANGED <<clientVars, disconnect_reason>>

\* backoff(unauthorized): one lock of reconnect_in when unauthorized, else one to
\* read it and one to write it
BackoffLocks ==
    \/ /\ Lock("start", "reconnect_in", "backoff", "backoff_read")
       /\ UNCHANGED <<clientVars, disconnect_reason>>
    \/ /\ locks.at["start"] = "backoff_read"
       /\ IF disconnect_reason.kind = "Unauthorized"
          THEN /\ Unlock("start", "reconnect_in", "backoff_read", "notify")
               /\ reconnect_in' = Backoff(TRUE, reconnect_in).next
          ELSE /\ Unlock("start", "reconnect_in", "backoff_read", "backoff_store")
               /\ UNCHANGED reconnect_in
       /\ UNCHANGED <<shutdown_flag, authenticated, disconnected_reason, mailbox_chan,
                      disconnect_reason>>
    \/ /\ Lock("start", "reconnect_in", "backoff_store", "backoff_write")
       /\ UNCHANGED <<clientVars, disconnect_reason>>
    \/ /\ Unlock("start", "reconnect_in", "backoff_write", "notify")
       /\ reconnect_in' = Backoff(FALSE, reconnect_in).next
       /\ UNCHANGED <<shutdown_flag, authenticated, disconnected_reason, mailbox_chan,
                      disconnect_reason>>

\* start: the loop guard, the cleanup after session_lifecycle, the notification
\* and the sleep
StartLocks ==
    \/ /\ Move("start", "head", IF shutdown_flag THEN "returned" ELSE "connect")
       /\ UNCHANGED <<clientVars, disconnect_reason>>
    \/ /\ Lock("start", "disconnected_reason", "store_reason", "store_reason_set")
       /\ UNCHANGED <<clientVars, disconnect_reason>>
    \/ /\ Unlock("start", "disconnected_reason", "store_reason_set", "clear_mailbox")
       /\ disconnected_reason' = disconnect_reason
       /\ UNCHANGED <<shutdown_flag, authenticated, reconnect_in, mailbox_chan,
                      disconnect_reason>>
    \/ /\ Lock("start", "mailbox_chan", "clear_mailbox", "clear_mailbox_set")
       /\ UNCHANGED <<clientVars, disconnect_reason>>
    \/ /\ Unlock("start", "mailbox_chan", "clear_mailbox_set", "clear_authenticated")
       /\ mailbox_chan' = FALSE
       /\ UNCHANGED <<shutdown_flag, authenticated, disconnected_reason, reconnect_in,
                      disconnect_reason>>
    \/ /\ Move("start", "clear_authenticated", "backoff")
       /\ authenticated' = FALSE
       /\ UNCHANGED <<shutdown_flag, disconnected_reason, reconnect_in, mailbox_chan,
                      disconnect_reason>>
    \/ /\ Move("start", "notify", IF shutdown_flag THEN "head" ELSE "sleep")
       /\ UNCHANGED <<clientVars, disconnect_reason>>
    \/ /\ Move("start", "sleep", "head")
       /\ UNCHANGED <<clientVars, disconnect_reason>>

\* send_cmd: the guard of mailbox_chan is held over mailbox_chan.send(Cmd) and is
\* gone when the error is written on the return channel
SendCmdLocks ==
    /\ \/ Move("send_cmd", "idle", "lock")
       \/ Lock("send_cmd", "mailbox_chan", "lock", "send")
       \/ Unlock("send_cmd", "mailbox_chan", "send", IF mailbox_chan THEN "idle" ELSE "reply")
       \/ Move("send_cmd", "reply", "idle")
    /\ UNCHANGED <<clientVars, disconnect_reason>>

\* stop: the store of shutdown_flag, then the guard of mailbox_chan held over
\* send(TransportClose)
StopLocks ==
    \/ /\ Move("stop", "idle", "lock")
       /\ shutdown_flag' = TRUE
       /\ UNCHANGED <<authenticated, disconnected_reason, reconnect_in, mailbox_chan,
                      disconnect_reason>>
    \/ /\ \/ Lock("stop", "mailbox_chan", "lock", "send")
          \/ Unlock("stop", "mailbox_chan", "send", "idle")
       /\ UNCHANGED <<clientVars, disconnect_reason>>

\* status: the guard of disconnected_reason lives to the end of the match, and
\* the ConnectFailed arm locks reconnect_in under it
StatusLocks ==
    /\ \/ Move("status", "idle", IF authenticated THEN "connected" ELSE "lock")
       \/ Move("status", "connected", "idle")
       \/ Lock("status", "disconnected_reason", "lock", "match")
       \/ /\ disconnected_reason.kind = "ConnectFailed"
          /\ Lock("status", "reconnect_in", "match", "reconnect")
       \/ Unlock("status", "reconnect_in", "reconnect", "arm")
       \/ /\ disconnected_reason.kind # "ConnectFailed"
          /\ Unlock("status", "disconnected_reason", "match", "idle")
       \/ Unlock("status", "disconnected_reason", "arm", "idle")
    /\ UNCHANGED <<clientVars, disconnect_reason>>

\* connected: authenticated.load()
ConnectedLoad ==
    /\ \/ Move("connected", "idle", IF authenticated THEN "true" ELSE "false")
       \/ Move("connected", "true", "idle")
       \/ Move("connected", "false", "idle")
    /\ UNCHANGED <<clientVars, disconnect_reason>>

LockNext ==
    \/ StartLocks /\ UNCHANGED lockRest
    \/ SessionLifecycle /\ UNCHANGED lockRest
    \/ ResetOnAuth /\ UNCHANGED lockRest
    \/ BackoffLocks /\ UNCHANGED lockRest
    \/ SendCmdLocks /\ UNCHANGED lockRest
    \/ StopLocks /\ UNCHANGED lockRest
    \/ StatusLocks /\ UNCHANGED lockRest
    \/ ConnectedLoad /\ UNCHANGED lockRest

LockSpec == Init /\ [][LockNext]_vars

\* ------------------------------------ the engine with responses and acks
\* The engine in start_loop with a server whose every read carries one response
\* frame followed by a HeartbeatAck.
StrayBatches == {EncodeAll(<<f, heartbeat_ack(TRUE)>>) : f \in RespFrames}

StrayNext ==
    \/ /\ sup_pc = "loop"
       /\ \E c \in Chans, cmd \in EngineCmds : SendCmd(c, cmd)
    \/ /\ sup_pc = "loop"
       /\ \E b \in StrayBatches : SocketRecv(b)
    \/ SocketWrite
    \/ LoopStep

StraySpec == EngineInit /\ [][StrayNext]_vars

\* ------------------------------------------------------- a Codec by itself
\* A Codec receives the encodings of some packets, followed or not by other
\* bytes, in pieces of any sizes, with process_packets called after each piece.
WireIds == {0, 258}
WireSizes == {0, 1}
WireNames == {<<>>, <<97>>}
WirePayloads == {<<>>, JsonSeven}

\* the packets of every variant, with every value of their flags
Catalog ==
    {server_close_connection, client_close_connection, heartbeat}
    \cup {[connect(AsBytes(ValidCreds.fleet_id), AsBytes(ValidCreds.device_id),
                     AsBytes(ValidCreds.device_secret))
             EXCEPT !.keep_alive = k, !.serialization_format = f]
            : k \in BOOLEAN, f \in SerializationFormats}
    \cup {connected(m, k) : m \in BOOLEAN, k \in BOOLEAN}
    \cup {unauthorized_packet(r) : r \in UnauthorizedErrors}
    \cup {connect_failed(r) : r \in ConnectFailedErrors}
    \cup {heartbeat_ack(b) : b \in BOOLEAN}
    \cup {pulse(ty, id, n, pl)
            : ty \in PulseTypes, id \in WireIds, n \in WireNames, pl \in WirePayloads}
    \cup {pulse_resp_success(id) : id \in WireIds}
    \cup {pulse_resp_error(id, r) : id \in WireIds, r \in PulseErrorReasons}
    \cup {new_mail_event(sz, id) : sz \in WireSizes, id \in WireIds}
    \cup {mailbox_next(h, id) : h \in BOOLEAN, id \in WireIds}
    \cup {[mailbox_next_resp_empty(id) EXCEPT !.header_only = h] 
            : h \in BOOLEAN, id \in WireIds}
    \cup {[mailbox_next_resp_failed(id) EXCEPT !.header_only = h, !.mailbox_size = sz]
            : h \in BOOLEAN, id \in WireIds, sz \in WireSizes}
    \cup {mailbox_next_resp_header_only(id, 1, pid, n)
            : id \in WireIds, pid \in WireIds, n \in WireNames}
    \cup {mailbox_next_resp_full(id, 1, pid, n, pl)
            : id \in WireIds, pid \in WireIds, n \in WireNames, pl \in WirePayloads}
    \cup {ack_mail(id, a) : id \in WireIds, a \in MailAckTypes}
    \cup {ack_mail_resp(sz, id, a) : sz \in WireSizes, id \in WireIds, a \in MailAckTypes}
    \cup {[ack_mail_resp_failed(id, a) EXCEPT !.mailbox_size = sz]
            : sz \in WireSizes, id \in WireIds, a \in MailAckTypes}

\* packets of two, three and more bytes, with and without fields of variable
\* length and optional fields, for the streams of more than one packet
StreamPackets ==
    {connected(TRUE, FALSE), unauthorized_packet(1), heartbeat_ack(TRUE),
     pulse(0, 258, <<97>>, JsonSeven), pulse_resp_error(1, 0),
     mailbox_next_resp_empty(0), mailbox_next_resp_header_only(0, 1, 0, <<97>>),
     mailbox_next_resp_full(1, 1, 258, <<97>>, JsonSeven)}

RECURSIVE SeqsOf(_, _)
\* the sequences of exactly n elements of S
SeqsOf(S, n) ==
    IF n = 0 THEN {<<>>} ELSE {Append(q, x) : q \in SeqsOf(S, n - 1), x \in S}

Streams ==
    {<<>>} \cup {<<p>> : p \in Catalog}
    \cup UNION {SeqsOf(StreamPackets, n) : n \in 2..MaxStream}

\* the header of a Pulse that announces a payload of 2^30 bytes
HugePulse == <<10, 0, 0>> \o BE(0, 8) \o <<0>> \o <<64, 0, 0, 0>>
\* what may follow the packets: nothing, or bytes that are no packet
Tails == {<<>>, BadTag, HugePulse}

CodecInit ==
    /\ FreshState /\ NoSession /\ CredsIdle /\ TimerIdle /\ ClockIdle /\ LocksIdle /\ SockIdle
    /\ stream \in Streams
    /\ tail \in Tails
    /\ wire = EncodeAll(stream) \o tail
    /\ decoded = <<>>
    /\ codec_err = FALSE

\* feed that replaces the buffer by the piece
FeedReplacesBuffer(k) ==
    /\ \E d \in {ProcessPackets(SubSeq(wire, 1, k))} :
            /\ codec' = d.buffer
            /\ decoded' = decoded \o d.packets
            /\ codec_err' = ~d.ok
    /\ wire' = SubSeq(wire, k + 1, Len(wire))
    /\ UNCHANGED <<supVars, stop_pc, proc_mailbox_chan, logic_alive, logic_authenticated,
                   pending_txns, next_txn_id, transport_write_chan, ping_chan,
                   notify_chan, alloc, replies, mails, threadVars, calls, creds,
                   cred_result, stream, tail, timer, ack_idle, auth_clock, sock, locks>>

\* codec.feed(piece); codec.process_packets() for the next k bytes of the wire
Feed(k) ==
    /\ \E d \in {ProcessPackets(codec \o SubSeq(wire, 1, k))} :
            /\ codec' = d.buffer
            /\ decoded' = decoded \o d.packets
            /\ codec_err' = ~d.ok
    /\ wire' = SubSeq(wire, k + 1, Len(wire))
    /\ UNCHANGED <<supVars, stop_pc, proc_mailbox_chan, logic_alive, logic_authenticated,
                   pending_txns, next_txn_id, transport_write_chan, ping_chan,
                   notify_chan, alloc, replies, mails, threadVars, calls, creds,
                   cred_result, stream, tail, timer, ack_idle, auth_clock, sock, locks>>

CodecNext == \E k \in 1..Len(wire) : Feed(k)

CodecSpec == CodecInit /\ [][CodecNext]_vars

\* ---------------------------------------------------------------- CredsSpec
\* Creds::new called once on three strings. A string is its chars, each a code
\* point below 256: A (65) is an ASCII letter, - (45) no alphanumeric, e with
\* acute (233) a letter of two bytes in UTF-8.
FleetIds ==
    {<<>>, Rep(65, 8), Rep(65, 7), Rep(65, 9), Rep(65, 7) \o <<45>>, Rep(233, 4),
     Rep(65, 7) \o <<233>>}

DeviceIds ==
    {<<>>, Rep(65, 10), Rep(65, 9), Rep(65, 9) \o <<45>>, Rep(233, 5),
     Rep(65, 9) \o <<233>>}

DeviceSecrets ==
    {<<>>, FosDash \o Rep(65, 32), Rep(65, 36), FosDash \o Rep(65, 31),
     FosDash \o Rep(65, 31) \o <<45>>, FosDash \o Rep(233, 16),
     FosDash \o Rep(65, 31) \o <<233>>}

CredsInit ==
    /\ FreshState /\ NoSession /\ StreamIdle /\ TimerIdle /\ ClockIdle /\ LocksIdle /\ SockIdle
    /\ creds \in [fleet_id : FleetIds, device_id : DeviceIds,
                   device_secret : DeviceSecrets]
    /\ cred_result = <<>>

\* Creds::new(fleet_id, device_id, device_secret, prod)
CredsNew ==
    /\ cred_result = <<>>
    /\ cred_result' = <<new(creds.fleet_id, creds.device_id, creds.device_secret)>>
    /\ UNCHANGED <<supVars, stop_pc, proc_mailbox_chan, logic_alive, logicVars,
                   threadVars, calls, creds, stream, tail, wire, decoded, codec_err,
                   timer, ack_idle, auth_clock, sock, locks>>

CredsNext == CredsNew

CredsSpec == CredsInit /\ [][CredsNext]_vars

\* ------------------------------------------------------------ TransportSpec
\* The transport thread by itself: the engine sends messages on write_chan and
\* the socket answers each write, flush and read with any of its results.
RECURSIVE Flatten(_)
\* the bytes of some messages, one after the other
Flatten(msgs) == IF msgs = <<>> THEN <<>> ELSE Head(msgs) \o Flatten(Tail(msgs))

\* results of stream.write, stream.flush and stream.read
IoOk(n) == [kind |-> "ok", n |-> n]
WouldBlock == [kind |-> "would_block", n |-> 0]
Interrupted == [kind |-> "interrupted", n |-> 0]
IoError == [kind |-> "error", n |-> 0]

\* the thread leaves its loop
Break(k) == [k EXCEPT !.pc = "close"]

\* push_bytes_to_socket that writes a pending message from its start again after
\* a WouldBlock
WriteRestartsAfterWouldBlock(k, res) ==
    LET buf == k.pending_buf[1]
        remaining == SubSeq(buf, k.pending_offset + 1, Len(buf))
        n == Min(res.n, Len(remaining))
        complete == k.pending_offset + n >= Len(buf)
        k1 == [k EXCEPT !.out = @ \o SubSeq(remaining, 1, n),
                        !.bytes_written = @ + n,
                        !.pending_offset = IF complete THEN 0 ELSE @ + n,
                        !.pending_buf = IF complete THEN <<>> ELSE @,
                        !.messages_completed = IF complete THEN @ + 1 ELSE @]
    IN  CASE res.kind = "ok" /\ res.n = 0 -> Break(k)
          [] res.kind = "ok" ->
                IF \/ k1.bytes_written >= WriteTickMaxBytes
                   \/ k1.messages_completed >= WriteTickMaxMessages
                THEN [k1 EXCEPT !.pc = "flush"] ELSE k1
          [] res.kind = "would_block" -> [k EXCEPT !.pc = "flush", !.pending_offset = 0]
          [] res.kind = "interrupted" -> k
          [] OTHER -> Break(k)

\* push_bytes_to_socket, one turn of its loop from stream.write(remaining) on,
\* the socket answering res
Write(k, res) ==
    LET buf == k.pending_buf[1]
        remaining == SubSeq(buf, k.pending_offset + 1, Len(buf))
        n == Min(res.n, Len(remaining))
        complete == k.pending_offset + n >= Len(buf)
        k1 == [k EXCEPT !.out = @ \o SubSeq(remaining, 1, n),
                        !.bytes_written = @ + n,
                        !.pending_offset = IF complete THEN 0 ELSE @ + n,
                        !.pending_buf = IF complete THEN <<>> ELSE @,
                        !.messages_completed = IF complete THEN @ + 1 ELSE @]
    IN  CASE res.kind = "ok" /\ res.n = 0 -> Break(k)
          [] res.kind = "ok" ->
                IF \/ k1.bytes_written >= WriteTickMaxBytes
                   \/ k1.messages_completed >= WriteTickMaxMessages
                THEN [k1 EXCEPT !.pc = "flush"] ELSE k1
          [] res.kind = "would_block" -> [k EXCEPT !.pc = "flush"]
          [] res.kind = "interrupted" -> k
          [] OTHER -> Break(k)

\* push_bytes_to_socket, one turn of its loop: a message is taken from write_chan
\* if none is pending, the age of the pending one is tested, and it is written
PushTurn(k, res) ==
    IF k.pending_buf # <<>>
    THEN IF k.pending_age > MaxPendingWriteAge THEN Break(k) ELSE Write(k, res)
    ELSE IF k.write_chan = <<>>
    THEN IF k.open THEN [k EXCEPT !.pc = "flush"] ELSE Break(k)
    ELSE IF Head(k.write_chan) = <<>>
    THEN [k EXCEPT !.write_chan = Tail(@)]
    ELSE Write([k EXCEPT !.write_chan = Tail(@), !.pending_buf = <<Head(k.write_chan)>>,
                         !.pending_offset = 0, !.pending_age = 0], res)

\* the results stream.write can give for what is left of the message it would
\* be called with
WriteResults(k) ==
    LET left == IF k.pending_buf # <<>> THEN Len(k.pending_buf[1]) - k.pending_offset
                ELSE IF k.write_chan # <<>> THEN Len(Head(k.write_chan))
                ELSE 0
    IN  {IoOk(n) : n \in 0..left} \cup {WouldBlock, Interrupted, IoError}

\* what the thread posts when it has left its loop and closed the stream
ExitPostsNothing == <<>>
ExitPosts == <<TransportClose>>

\* the messages the engine may send
WriteMsgs == {<<>>, <<1>>, <<2, 3>>}
MsgSeqs == UNION {[1..n -> WriteMsgs] : n \in 0..MaxMsgs}
\* bytes the socket gives to a read
ReadBytes == <<7>>

TransportInit ==
    /\ FreshState /\ CredsIdle /\ StreamIdle /\ TimerIdle /\ ClockIdle /\ LocksIdle
    /\ sup_pc = "loop"
    /\ authenticated = TRUE
    /\ mailbox_chan = TRUE
    /\ logic_alive = TRUE
    /\ logic_authenticated = TRUE
    /\ timer_alive = FALSE
    /\ socket_alive = TRUE
    /\ sock \in {SockStart(msgs) : msgs \in MsgSeqs}

\* every variable but sock
notSock == <<supVars, stop_pc, proc_mailbox_chan, logic_alive, logicVars, threadVars,
              calls, creds, cred_result, stream, tail, wire, decoded, codec_err, timer,
              ack_idle, auth_clock, locks>>

\* the engine: transport_write_chan.send(bytes) with the next of its messages
WriteChanSend ==
    /\ sock.sent < Len(sock.msgs)
    /\ sock.open
    /\ sock' = [sock EXCEPT !.sent = @ + 1, !.write_chan = Append(@, sock.msgs[sock.sent + 1])]
    /\ UNCHANGED notSock

\* the engine's sender of write_chan is dropped
WriteChanDrop ==
    /\ sock.open
    /\ sock' = [sock EXCEPT !.open = FALSE]
    /\ UNCHANGED notSock

\* close(): the shutdown flag of the thread is set
TransportCloseFn ==
    /\ ~socket_close
    /\ socket_close' = TRUE
    /\ UNCHANGED <<supVars, stop_pc, proc_mailbox_chan, logic_alive, logicVars,
                   timer_alive, timer_shutdown, socket_alive, calls, unitVars>>

\* time passes while a message is pending
PendingAges ==
    /\ sock.pc \notin {"close", "done"}
    /\ sock.pending_buf # <<>>
    /\ sock.pending_age <= MaxPendingWriteAge
    /\ sock' = [sock EXCEPT !.pending_age = @ + TickDur]
    /\ UNCHANGED notSock

\* while !shutdown_flag: the loop is entered again or left
TransportHead ==
    /\ sock.pc = "head"
    /\ sock' = IF socket_close THEN Break(sock)
               ELSE [sock EXCEPT !.pc = "push", !.bytes_written = 0,
                                 !.messages_completed = 0]
    /\ UNCHANGED notSock

\* push_bytes_to_socket: one turn of its loop
TransportPush ==
    /\ sock.pc = "push"
    /\ \E res \in WriteResults(sock) : sock' = PushTurn(sock, res)
    /\ UNCHANGED notSock

\* push_bytes_to_socket: stream.flush()
TransportFlush ==
    /\ sock.pc = "flush"
    /\ \E res \in {IoOk(0), WouldBlock, Interrupted, IoError} :
            sock' = IF res = IoError THEN Break(sock) ELSE [sock EXCEPT !.pc = "pull"]
    /\ UNCHANGED notSock

\* pull_bytes_from_socket: socket_read, which reads again when interrupted, and
\* the TransportRecv posted for the bytes read
TransportPull ==
    /\ sock.pc = "pull"
    /\ \E res \in {IoOk(0), IoOk(Len(ReadBytes)), WouldBlock, IoError} :
            IF res.kind = "ok" /\ res.n > 0
            THEN /\ Len(proc_mailbox_chan) < MaxPosted
                 /\ proc_mailbox_chan' = Append(proc_mailbox_chan, TransportRecv(ReadBytes))
                 /\ sock' = [sock EXCEPT !.pc = "head"]
            ELSE /\ sock' = IF res = WouldBlock THEN [sock EXCEPT !.pc = "head"]
                            ELSE Break(sock)
                 /\ UNCHANGED proc_mailbox_chan
    /\ UNCHANGED <<supVars, stop_pc, logic_alive, logicVars, threadVars, calls, creds,
                   cred_result, stream, tail, wire, decoded, codec_err, timer,
                   ack_idle, auth_clock, locks>>

\* after the loop: the stream is closed and TransportClose posted
TransportExit ==
    /\ sock.pc = "close"
    /\ sock' = [sock EXCEPT !.pc = "done"]
    /\ socket_alive' = FALSE
    /\ proc_mailbox_chan' = proc_mailbox_chan \o ExitPosts
    /\ UNCHANGED <<supVars, stop_pc, logic_alive, logicVars, timer_alive, timer_shutdown,
                   socket_close, calls, creds, cred_result, stream, tail, wire, decoded,
                   codec_err, timer, ack_idle, auth_clock, locks>>

TransportNext ==
    \/ WriteChanSend
    \/ WriteChanDrop
    \/ TransportCloseFn
    \/ PendingAges
    \/ TransportHead
    \/ TransportPush
    \/ TransportFlush
    \/ TransportPull
    \/ TransportExit

TransportSpec == TransportInit /\ [][TransportNext]_vars

\* ---------------------------------------------------------------- OrderSpec
\* start_loop with several events queued: callers send pulses, and the transport
\* posts TransportRecv events of two packets each while the engine is busy.
OrderPackets ==
    {pulse_resp_success(id) : id \in Ids} \cup {pulse_resp_error(0, 0), new_mail_event(0, 0)}

OrderBatches ==
    {EncodeAll(<<p, q>>) : p \in OrderPackets, q \in OrderPackets}
    \cup {EncodeAll(<<server_close_connection, pulse_resp_success(0)>>)}

\* transport thread, pull_bytes_from_socket, with up to MaxBurst events queued
SocketBurst(bytes) ==
    /\ sup_pc = "loop"
    /\ socket_alive /\ ~socket_close /\ logic_alive
    /\ Len(proc_mailbox_chan) < MaxBurst
    /\ proc_mailbox_chan' = Append(proc_mailbox_chan, TransportRecv(bytes))
    /\ UNCHANGED <<supVars, stop_pc, logic_alive, logicVars, threadVars, calls,
                   unitVars>>

OrderNext ==
    \/ \E c \in Chans : SendCmd(c, SendPulseCmd(MaxNameLen))
    \/ \E b \in OrderBatches : SocketBurst(b)
    \/ LoopStep
    \/ SocketWrite

OrderSpec == EngineInit /\ [][OrderNext]_vars

\* ------------------------------------------------------------- DeadlineSpec
\* wait_for_authentication with the time it waits: the server sends a PulseResp one
\* byte at a time, or a whole Connected, and TickDur seconds pass between events.
SlowFrame == Encode(pulse_resp_success(0))

\* the other unit variables
idleVars == <<creds, cred_result, stream, tail, wire, decoded, codec_err, timer,
              ack_idle, sock, locks>>

\* transport thread: the next byte of the slow frame is read and posted
SocketDrip ==
    /\ sup_pc = "auth"
    /\ proc_mailbox_chan = <<>>
    /\ Len(codec) < Min(MaxBuffer, Len(SlowFrame) - 1)
    /\ MailboxSend(TransportRecv(<<SlowFrame[Len(codec) + 1]>>))

\* transport thread: a whole Connected is read and posted
SocketConnected ==
    /\ codec = <<>>
    /\ \E m \in BOOLEAN : MailboxSend(TransportRecv(Encode(connected(m, FALSE))))

\* recv_timeout blocks on the empty channel while time passes, up to its timeout
AuthWait ==
    /\ sup_pc = "auth"
    /\ proc_mailbox_chan = <<>>
    /\ auth_clock.wait < AuthRecvTimeout
    /\ auth_clock.since < MaxAuthTime
    /\ \E d \in {Min(TickDur, AuthRecvTimeout - auth_clock.wait)} :
            auth_clock' = [wait |-> auth_clock.wait + d, since |-> auth_clock.since + d]
    /\ UNCHANGED <<supVars, stop_pc, proc_mailbox_chan, logic_alive, logicVars,
                   threadVars, calls, idleVars>>

\* recv_timeout returns Ok(client_event): the event is handled, and the loop, if
\* it goes on, calls recv_timeout anew
AuthRecv ==
    /\ AuthTake
    /\ auth_clock' = [auth_clock EXCEPT !.wait = 0]
    /\ UNCHANGED idleVars

\* recv_timeout returns Err(Timeout) once its 10 s have passed
AuthRecvTimedOut ==
    /\ auth_clock.wait >= AuthRecvTimeout
    /\ AuthTimeout

DeadlineNext ==
    \/ SupPublish
    \/ SocketDrip
    \/ SocketConnected
    \/ AuthWait
    \/ AuthRecv
    \/ AuthRecvTimedOut
    \/ SupAuthOk
    \/ SocketWrite

DeadlineSpec == AuthInit /\ [][DeadlineNext]_vars

\* ------------------------------------------------------------- properties
\* the reply channel of call c has a sender left: its Cmd is queued, or an entry
\* of the pending table holds it
Held(c) ==
    \/ \E i \in 1..Len(proc_mailbox_chan) : proc_mailbox_chan[i].cmd.chan = c
    \/ \E e \in pending_txns : e.chan = c

\* start_loop takes the event at the head of proc_mailbox_chan in this step
Takes(type) ==
    /\ sup_pc = "loop"
    /\ ~timer_shutdown
    /\ proc_mailbox_chan # <<>>
    /\ Head(proc_mailbox_chan).type = type
    /\ proc_mailbox_chan' = Tail(proc_mailbox_chan)

\* C1: among pending SendPulse and MailboxNext requests, whatever the order the
\* response frames arrive in, a reply caused by a response frame goes to the
\* caller whose request was allocated the id that frame carried, never to another.
C1_ReplyCarriesAllocatedId ==
    \A c \in Chans :
        calls[c].cmd.kind \in {"SendPulse", "MailboxNext"} =>
            \A i \in 1..Len(replies[c]) :
                replies[c][i].fid # <<>> => replies[c][i].fid = alloc[c]

\* two requests pending with different ids, the second answered before the first
C1_OutOfOrderResponse ==
    /\ calls[1].cmd.kind = "SendPulse"
    /\ calls[2].cmd.kind = "MailboxNext"
    /\ alloc[1] # <<>> /\ alloc[2] # <<>> /\ alloc[1] # alloc[2]
    /\ replies[1] = <<>>
    /\ \E e \in pending_txns : e.chan = 1 /\ <<e.id>> = alloc[1]
    /\ replies[2] = <<[val |-> "Mail:Some", fid |-> alloc[2]]>>

\* C2: across commands, response frames (duplicated and late ones too), Refresh
\* sweeps, local rejections and failed send_cmd calls, every reply channel handed
\* to send_cmd receives at most one value.
C2_AtMostOneReply == \A c \in Chans : Len(replies[c]) <= 1

\* a call has its reply, and a second response frame with its id is waiting
C2_DuplicateResponseQueued ==
    /\ sup_pc = "loop"
    /\ alloc[1] # <<>>
    /\ replies[1] = <<[val |-> "Ok", fid |-> alloc[1]]>>
    /\ proc_mailbox_chan # <<>>
    /\ Head(proc_mailbox_chan).type = "TransportRecv"
    /\ alloc[1] = <<0>>
    /\ Head(proc_mailbox_chan).bytes = Encode(pulse_resp_success(0))

\* C3: a send_cmd call made while mailbox_chan is None, or whose post to the
\* session's queue fails, has "mailbox write failed" on its reply channel when it
\* returns, whatever the command, and its Cmd reaches no engine.
C3_FailedSendRepliesAtOnce ==
    \A c \in Chans :
        calls[c].how \in {"nochan", "sendfail"} =>
            /\ replies[c] = <<[val |-> "Err:mailbox write failed", fid |-> <<>>]>>
            /\ ~Held(c)
            /\ alloc[c] = <<>>

\* one call found no session, another found a session whose engine was gone
C3_BothFailures ==
    /\ calls[1].how = "nochan"
    /\ calls[2].how = "sendfail"
    /\ calls[1].cmd.kind # calls[2].cmd.kind

\* C4: every send_cmd call, at whatever point of the lifecycle it is made,
\* eventually has a value on its reply channel or the channel closed (no sender
\* left).
C4_CallerNeverWaitsForever ==
    \A c \in Chans : (calls[c].how # "idle") ~> (replies[c] # <<>> \/ ~Held(c))

\* a call was queued for a session, the session ended, and the reply channel was
\* closed with nothing sent
C4_ClosedBySessionEnd ==
    /\ calls[1].how = "queued"
    /\ replies[1] = <<>>
    /\ ~Held(1)
    /\ ~logic_alive
    /\ sup_pc = "sleep"

\* C5: a Refresh taken in steady state removes the pending entries older than
\* 10 s, sends Timeout to each of their reply channels, and leaves every entry
\* that is not older than 10 s, and its reply channel, as they were.
C5_RefreshTimesOutOldEntries ==
    [][Takes("Refresh") =>
          /\ pending_txns' = {e \in pending_txns : e.age <= 10}
          /\ \A c \in Chans :
                replies'[c] = IF \E e \in pending_txns : e.chan = c /\ e.age > 10
                              THEN Append(replies[c], [val |-> "Timeout", fid |-> <<>>])
                              ELSE replies[c]]_vars

\* a sweep timed out the first call and left the second, 10 s old, pending
C5_OneTimedOutOneKept ==
    /\ replies[1] = <<[val |-> "Timeout", fid |-> <<>>]>>
    /\ replies[2] = <<>>
    /\ \E e \in pending_txns : e.chan = 2 /\ e.age = 10
    /\ proc_mailbox_chan = <<>>

\* C6: a MailOp for pulse_id P taken while a MailOp for P is pending is answered
\* with duplicate_request, writes nothing to the transport and leaves the pending
\* table as it was (the first MailOp is still there for its AckMailResp).
C6_DuplicateMailOpRejected ==
    [][(/\ Takes("Cmd")
        /\ Head(proc_mailbox_chan).cmd.kind = "MailOp"
        /\ \E e \in pending_txns :
              /\ e.id = Head(proc_mailbox_chan).cmd.key
              /\ calls[e.chan].cmd.kind = "MailOp")
       => /\ replies' = [replies EXCEPT ![Head(proc_mailbox_chan).cmd.chan] =
                            Append(@, [val |-> "Err:duplicate_request", fid |-> <<>>])]
          /\ transport_write_chan' = transport_write_chan
          /\ pending_txns' = pending_txns
          /\ sup_pc' = "loop"]_vars

\* the second MailOp for the id was rejected, and the first was then resolved by
\* the AckMailResp with that id
C6_FirstStillResolved ==
    /\ calls[1].cmd.kind = "MailOp"
    /\ calls[2].cmd.kind = "MailOp"
    /\ calls[1].cmd.key = calls[2].cmd.key
    /\ replies[2] = <<[val |-> "Err:duplicate_request", fid |-> <<>>]>>
    /\ replies[1] = <<[val |-> "MailAckSuccessful:true", fid |-> <<calls[1].cmd.key>>]>>

\* C7: once stop() has been called, at whatever point of the lifecycle, start()
\* eventually returns, even with a server that keeps the connection healthy.
C7_StopEndsStart == (stop_pc = "done") ~> (sup_pc \in {"returned", "panicked"})

\* the sleep the schedule 0, 1 s, 2.5 s, 5 s, 10 s, 15 s, 30 s, 30 s, ... gives the
\* k-th failure in a row
ScheduleSlot(k) ==
    CASE k = 1 -> 0
      [] k = 2 -> 1000
      [] k = 3 -> 2500
      [] k = 4 -> 5000
      [] k = 5 -> 10000
      [] k = 6 -> 15000
      [] OTHER -> 30000

\* C8: counted from a fresh supervisor or from the last reset of the schedule, the
\* sleep taken on the k-th failure with a non-unauthorized reason is the k-th of
\* 0, 1 s, 2.5 s, 5 s, 10 s, 15 s, 30 s, 30 s, ..., and the stored next backoff
\* is the slot after it.
C8_ScheduleFollowed ==
    (sup_pc = "sleep" /\ disconnected_reason.kind # "Unauthorized" /\ streak # <<>>) =>
        /\ sleep_time = ScheduleSlot(streak[1])
        /\ reconnect_in = <<ScheduleSlot(streak[1] + 1)>>

\* the eighth failure in a row sleeps 30 s again
C8_ThirtySecondsAgain ==
    /\ sup_pc = "sleep"
    /\ disconnected_reason.kind # "Unauthorized"
    /\ streak # <<>> /\ streak[1] >= 8
    /\ sleep_time = 30000
    /\ reconnect_in = <<30000>>

\* C9: a session that ends with an Unauthorized reason is followed by a sleep of
\* 5 minutes and leaves 5 minutes as the stored next backoff, whatever the
\* backoff was before, after an earlier unauthorized failure too.
C9_UnauthorizedFiveMinutes ==
    (sup_pc = "sleep" /\ disconnected_reason.kind = "Unauthorized") =>
        /\ sleep_time = 300000
        /\ reconnect_in = <<300000>>

\* an unauthorized failure of a later session, asleep for 5 minutes
C9_LaterUnauthorizedFailure ==
    /\ sup_pc = "sleep"
    /\ disconnected_reason.kind = "Unauthorized"
    /\ sessions >= 2
    /\ streak = <<>>
    /\ sleep_time = 300000

\* C10: a session that has accepted Connected as its first frame and ends with a
\* non-unauthorized reason is followed by a sleep of 0, whatever the backoff was
\* before it and whatever frames followed Connected.
C10_AuthenticationResetsBackoff ==
    [][(/\ sup_pc = "cleanup"
        /\ logic_authenticated
        /\ disconnect_reason.kind # "Unauthorized")
       => sleep_time' = 0]_vars

\* ------------------------------------------------------------------ C11
IsPrefix(p, q) == Len(p) <= Len(q) /\ SubSeq(q, 1, Len(p)) = p

\* C11: when the encodings of packets f1..fn are fed in pieces of any sizes with
\* process_packets called after each piece, no call fails, the packets returned
\* so far are the first packets of f1..fn in order, what was fed is exactly their
\* encodings followed by the buffer, the buffer is a strict prefix of the next
\* packet's encoding (it is kept and yields nothing), and once everything is fed
\* the packets returned are f1..fn and the buffer is empty.
C11_StreamDecodesInOrder ==
    tail = <<>> =>
        LET all == EncodeAll(stream)
        IN  /\ ~codec_err
            /\ IsPrefix(decoded, stream)
            /\ EncodeAll(decoded) \o codec = SubSeq(all, 1, Len(all) - Len(wire))
            /\ Len(decoded) < Len(stream) =>
                    Len(codec) < Len(Encode(stream[Len(decoded) + 1]))
            /\ wire = <<>> => decoded = stream /\ codec = <<>>

\* of two packets fed in pieces the first has been returned, and the last piece
\* ended inside the second, past its mailbox_size: those bytes are buffered
C11_SplitInsideBothPackets ==
    /\ tail = <<>>
    /\ Len(stream) = 2
    /\ Len(decoded) = 1
    /\ codec # <<>>
    /\ wire # <<>>
    /\ stream[2].type = "MailboxNextResp"
    /\ Len(codec) > 12

\* ------------------------------------------------------------------ C12
\* C12: for every packet of the catalog, with every value of its flags and fields,
\* decoding the packet's encoding gives the same packet and consumes exactly the
\* length of the encoding.
C12_DecodeInvertsEncode ==
    \A i \in 1..Len(stream) :
        Decode(Encode(stream[i])) = Decoded(stream[i], Len(Encode(stream[i])))

\* a MailboxNextResp with header_only set and successful clear, which carries no
\* mail, was encoded, fed and returned as it was
C12_FlagsWithoutMail ==
    /\ Len(stream) = 1
    /\ stream[1].type = "MailboxNextResp"
    /\ stream[1].header_only /\ ~stream[1].successful /\ stream[1].mailbox_size = 1
    /\ tail = <<>>
    /\ wire = <<>>
    /\ decoded = stream

\* ------------------------------------------------------------------ C13
\* wait_for_authentication or start_loop takes the event at the head of
\* proc_mailbox_chan in this step
EngineTakes(type) ==
    /\ sup_pc \in {"auth", "loop"}
    /\ ~timer_shutdown
    /\ proc_mailbox_chan # <<>>
    /\ Head(proc_mailbox_chan).type = type
    /\ proc_mailbox_chan' = Tail(proc_mailbox_chan)

\* C13: when the engine, authenticating or in steady state, takes a TransportRecv
\* event and the buffer with the event's bytes begins with a byte that is no
\* packet tag, process_packets fails and the session ends with ForceCloseSocket.
C13_UnknownTagForceCloses ==
    [][(/\ EngineTakes("TransportRecv")
        /\ codec \o Head(proc_mailbox_chan).bytes # <<>>
        /\ (codec \o Head(proc_mailbox_chan).bytes)[1] \notin Tags)
       => /\ ~ProcessPackets(codec \o Head(proc_mailbox_chan).bytes).ok
          /\ disconnect_reason' = ForceCloseSocket
          /\ sup_pc' = (IF sup_pc = "auth" THEN "close" ELSE "stop_timer")]_vars

\* an authenticated session in steady state was ended with ForceCloseSocket and
\* its buffer begins with a byte that is no packet tag
C13_BadTagInSteadyState ==
    /\ sup_pc = "stop_timer"
    /\ logic_authenticated
    /\ disconnect_reason = ForceCloseSocket
    /\ codec # <<>>
    /\ codec[1] \notin Tags

\* ------------------------------------------------------------------ C14
\* C14: a packet whose payload_len is above a fixed cap is rejected with a decode
\* error instead of being buffered as incomplete: once the header of a Pulse that
\* announces a payload of 2^30 bytes is at the front of the buffer, the last call
\* of process_packets has failed.
C14_HugePayloadLenRejected ==
    (Len(codec) >= Len(HugePulse) /\ SubSeq(codec, 1, Len(HugePulse)) = HugePulse)
        => codec_err

\* ------------------------------------------------------------------ C15
\* the texts among MailPayloads that are JSON documents
ParsesAsJson(pl) == pl \in {JsonSeven, JsonNull}

\* the steady-state loop takes a TransportRecv that holds exactly the packet p,
\* a MailboxNextResp whose txn_id is the key of a pending entry
TakesMailboxNextResp(p) ==
    /\ Takes("TransportRecv")
    /\ codec = <<>>
    /\ Head(proc_mailbox_chan).bytes = Encode(p)
    /\ ContainsKey(Logic, p.txn_id)

\* what the reply channel of the entry with key id has received in this step
Replied(id, val) ==
    replies' = [replies EXCEPT ![Entry(Logic, id).chan] =
                    Append(@, [val |-> val, fid |-> <<id>>])]

\* the mail sent with that reply
MailSent(id) == mails'[Entry(Logic, id).chan][Len(mails'[Entry(Logic, id).chan])]

MailDelivered(p) ==
    /\ Replied(p.txn_id, "Mail:Some")
    /\ Len(mails'[Entry(Logic, p.txn_id).chan]) = Len(mails[Entry(Logic, p.txn_id).chan]) + 1
    /\ MailSent(p.txn_id).pulse_id = p.pulse_id[1]
    /\ MailSent(p.txn_id).name = p.name[1]
    /\ MailSent(p.txn_id).mailbox_size = p.mailbox_size
    /\ MailSent(p.txn_id).payload # <<>>
            <=> (~p.header_only /\ ParsesAsJson(p.payload[1]) /\ p.payload[1] # JsonNull)
    /\ (~p.header_only /\ p.payload[1] = JsonSeven) => MailSent(p.txn_id).payload = <<"7">>

\* C15 as stated: a MailboxNextResp for a pending txn resolves it with Mail(None)
\* when successful with mailbox_size 0, with Mail(Some(m)) always when successful
\* with mailbox_size > 0 (m carrying the packet's pulse_id, name and mailbox_size,
\* and its payload only if the packet is not header-only and the payload parses),
\* and with the fetch error when unsuccessful.
C15_SuccessAlwaysDeliversMail ==
    [][\A p \in MailPackets :
        TakesMailboxNextResp(p) =>
            IF ~p.successful THEN Replied(p.txn_id, "Err:failed")
            ELSE IF p.mailbox_size = 0 THEN Replied(p.txn_id, "Mail:None")
            ELSE MailDelivered(p)]_vars

\* C15, amended: as above, but a successful MailboxNextResp with mailbox_size > 0
\* delivers the mail only when its name is well-formed UTF-8; when it is not, the
\* txn is resolved with the fetch error. A payload that is the JSON text null
\* counts as absent.
C15_MailDeliveredWhenNameIsUtf8 ==
    [][\A p \in MailPackets :
        TakesMailboxNextResp(p) =>
            IF ~p.successful THEN Replied(p.txn_id, "Err:failed")
            ELSE IF p.mailbox_size = 0 THEN Replied(p.txn_id, "Mail:None")
            ELSE IF p.name[1] = NotUtf8 THEN Replied(p.txn_id, "Err:failed")
            ELSE MailDelivered(p)]_vars

\* a caller has received a mail with its payload, another a mail whose payload
\* did not parse and is absent
C15_MailWithAndWithoutPayload ==
    /\ mails[1] # <<>> /\ mails[1][1].payload = <<"7">>
    /\ mails[2] # <<>> /\ mails[2][1].payload = <<>>
    /\ mails[2][1].name = <<97>>
    /\ codec = <<>>

\* ------------------------------------------------------------------ C16
\* C16: at a turn of the timer, TransportClose is posted and the shutdown flag set
\* exactly when 90 s or more have elapsed since the last ack the timer observed
\* (the start, when it has observed none). So the timer closes only when no ack
\* has arrived on ping_chan for 90 s, never when acks arrive 30 s apart, and a
\* timer still running has had an ack, or its start, within 90 s and one sleep.
C16_ClosesAfterNinetySecondsWithoutAck ==
    [][(timer_alive /\ ~timer_shutdown /\ timer' # timer) =>
        LET observed == IF ping_chan > 0 THEN 0 ELSE timer.last_heartbeat_ack
            closes == observed >= AckDeadline
        IN  /\ timer_shutdown' = closes
            /\ closes <=> (\E i \in 1..Len(proc_mailbox_chan') :
                                proc_mailbox_chan'[i] = TransportClose)
            /\ closes => ack_idle >= AckDeadline
            /\ ~closes => ack_idle < AckDeadline + TimerSleep]_vars

\* heartbeats went unanswered after an answered one, retries were sent every 5 s,
\* and the timer has posted TransportClose and set its flag
C16_ClosedAfterAnAck ==
    /\ timer_shutdown
    /\ proc_mailbox_chan # <<>>
    /\ Head(proc_mailbox_chan) = TransportClose
    /\ timer.last_heartbeat_ack = AckDeadline + TimerSleep
    /\ timer.last_heartbeat_sent < HeartbeatRetry + TimerSleep
    /\ timer.sent_after_ack

\* ------------------------------------------------------------------ C17
\* wait_for_authentication takes a TransportRecv in this step and process_packets
\* returns packets for it, the first decoded of the session
AuthDecodes ==
    /\ sup_pc = "auth"
    /\ EngineTakes("TransportRecv")
    /\ ProcessPackets(codec \o Head(proc_mailbox_chan).bytes).ok
    /\ ProcessPackets(codec \o Head(proc_mailbox_chan).bytes).packets # <<>>

AuthPacket(i) == ProcessPackets(codec \o Head(proc_mailbox_chan).bytes).packets[i]
AuthPacketCount == Len(ProcessPackets(codec \o Head(proc_mailbox_chan).bytes).packets)

\* the notifications of a Connected packet
ConnectedNotes(mail_available) ==
    IF mail_available THEN <<"connected", "new_mail">> ELSE <<"connected">>

\* the reason handle_packet gives for a packet that reports a disconnection
ReasonOf(p) ==
    IF p.type = "Unauthorized" THEN Unauthorized(p.reason)
    ELSE IF p.type = "ConnectFailed" THEN ConnectFailed(p.reason)
    ELSE NormalDisconnect

\* the session is marked authenticated and notified for the first packet
MarkedAndNotified ==
    /\ logic_authenticated'
    /\ IsPrefix(ConnectedNotes(AuthPacket(1).mail_available), notify_chan')
    /\ AuthPacketCount = 1 => notify_chan' = ConnectedNotes(AuthPacket(1).mail_available)

\* authentication fails with the first packet's reason, nothing notified, the
\* session not marked authenticated
RefusedWithReason ==
    /\ sup_pc' = "close"
    /\ disconnect_reason' = ReasonOf(AuthPacket(1))
    /\ notify_chan' = <<>>
    /\ ~logic_authenticated'

\* C17 as stated: when the first packet decoded during authentication is
\* Connected, the session is marked authenticated, connected is notified, then
\* new_mail exactly when mail_available is set, and authentication succeeds; when
\* it is Unauthorized(r) or ConnectFailed(r), authentication fails with that
\* reason, nothing is notified and the session is not marked authenticated.
C17_ConnectedAlwaysSucceeds ==
    [][AuthDecodes =>
        /\ AuthPacket(1).type = "Connected" => MarkedAndNotified /\ sup_pc' = "auth_ok"
        /\ AuthPacket(1).type \in {"Unauthorized", "ConnectFailed"} => RefusedWithReason
      ]_vars

\* packets that make handle_server_resp end the session
EndsSession(p) ==
    p.type \notin {"HeartbeatAck", "NewMailEvent", "PulseResp", "MailboxNextResp",
                   "AckMailResp"}

\* C17, amended: as above, but after a first Connected authentication succeeds
\* only if no packet that follows it in the same TransportRecv ends the session;
\* if one does, authentication fails, with the reason of that packet when it is a
\* server CloseConnection, Unauthorized or ConnectFailed, and the session stays
\* marked authenticated and notified.
C17_ConnectedSucceedsUnlessFollowedByEnd ==
    [][AuthDecodes =>
        /\ AuthPacket(1).type = "Connected" =>
                /\ MarkedAndNotified
                /\ sup_pc' = "auth_ok" <=> \A i \in 2..AuthPacketCount : ~EndsSession(AuthPacket(i))
                /\ \A i \in 2..AuthPacketCount :
                        (/\ \A j \in 2..(i - 1) : ~EndsSession(AuthPacket(j))
                         /\ AuthPacket(i).type \in {"CloseConnection", "Unauthorized",
                                                    "ConnectFailed"})
                        => sup_pc' = "close" /\ disconnect_reason' = ReasonOf(AuthPacket(i))
        /\ AuthPacket(1).type \in {"Unauthorized", "ConnectFailed"} => RefusedWithReason
      ]_vars

\* authentication has succeeded on a Connected with mail_available set: both
\* notifications are out, in their order, and no later packet was handled
C17_AuthenticatedWithMail ==
    /\ sup_pc = "auth_ok"
    /\ logic_authenticated
    /\ notify_chan = <<"connected", "new_mail">>
    /\ ping_chan = 0

\* ------------------------------------------------------------------ C19
\* wait_for_authentication leaves its loop in this step with nothing to take:
\* recv_timeout returned Err
AuthChannelClosed ==
    /\ sup_pc = "auth"
    /\ proc_mailbox_chan = <<>>
    /\ sup_pc' # "auth"

\* the first decoded packet is none of Connected, Unauthorized and ConnectFailed
AuthOtherFrame ==
    /\ AuthDecodes
    /\ AuthPacket(1).type \notin {"Connected", "Unauthorized", "ConnectFailed"}

\* authentication fails with the reason given, the session not marked
\* authenticated and nothing notified
AuthFailsWith(reason) ==
    /\ sup_pc' = "close"
    /\ disconnect_reason' = reason
    /\ ~logic_authenticated'
    /\ notify_chan' = <<>>

\* C19 as stated: during authentication, a first decoded packet other than
\* Connected, Unauthorized and ConnectFailed, or a closed event channel, makes
\* authentication fail with ForceCloseSocket.
C19_OtherFrameForceCloses ==
    [][AuthOtherFrame \/ AuthChannelClosed => AuthFailsWith(ForceCloseSocket)]_vars

\* C19, amended: during authentication, a first decoded packet that is a server
\* CloseConnection makes authentication fail with NormalDisconnect; any other
\* first packet than Connected, Unauthorized and ConnectFailed, or a closed event
\* channel, makes it fail with ForceCloseSocket.
C19_OtherFrameForceClosesUnlessServerClose ==
    [][/\ AuthOtherFrame =>
            AuthFailsWith(IF AuthPacket(1) = server_close_connection
                          THEN NormalDisconnect ELSE ForceCloseSocket)
       /\ AuthChannelClosed => AuthFailsWith(ForceCloseSocket)]_vars

\* authentication was ended by a server CloseConnection that came before any
\* Connected: the supervisor holds NormalDisconnect for a session that was never
\* marked authenticated and notified nothing
C19_ServerCloseBeforeConnected ==
    /\ sup_pc = "close"
    /\ ~logic_authenticated
    /\ disconnect_reason = NormalDisconnect
    /\ notify_chan = <<>>
    /\ codec = <<>>

\* ------------------------------------------------------------------ C20
\* C20: when wait_for_authentication takes from proc_mailbox_chan an event that is
\* no TransportRecv (TransportClose, Refresh, HeartbeatTick or Cmd), authentication
\* fails with ForceCloseSocket, the session is not marked authenticated, nothing
\* is notified and the buffer is left as it was.
C20_OtherEventForceCloses ==
    [][(/\ sup_pc = "auth"
        /\ \E type \in {"TransportClose", "Refresh", "HeartbeatTick", "Cmd"} :
                EngineTakes(type))
       => /\ AuthFailsWith(ForceCloseSocket)
          /\ codec' = codec]_vars

\* the transport thread ended while a packet was partly received, and the
\* TransportClose it posted was taken during authentication: the queue is empty,
\* the supervisor holds ForceCloseSocket and the session was never authenticated
C20_TransportCloseDuringAuthentication ==
    /\ sup_pc = "close"
    /\ ~socket_alive
    /\ proc_mailbox_chan = <<>>
    /\ disconnect_reason = ForceCloseSocket
    /\ ~logic_authenticated
    /\ codec # <<>>
    /\ codec[1] \in Tags

\* ------------------------------------------------------------------ C18
\* str has the stated form: exactly n chars, the first of them prefix, the others
\* alphanumeric
HasForm(str, n, prefix) ==
    /\ Len(str) = n
    /\ IsPrefix(prefix, str)
    /\ \A i \in (Len(prefix) + 1)..Len(str) : IsAlphanumeric(str[i])

\* the error the claim gives a field: Missing when empty, Invalid when not of the
\* stated form
FieldError(str, n, prefix, missing, invalid) ==
    IF str = <<>> THEN missing
    ELSE IF ~HasForm(str, n, prefix) THEN invalid
    ELSE CredOk

\* the error of the first field that fails, in the order fleet id, device id,
\* device secret
FirstFieldError(c) ==
    LET f == FieldError(c.fleet_id, FleetIdLen, <<>>, "FleetIDMissing", "FleetIDInvalid")
        d == FieldError(c.device_id, DeviceIdLen, <<>>, "DeviceIDMissing",
                        "DeviceIDInvalid")
        s == FieldError(c.device_secret, DeviceSecretLen, FosDash, "DeviceSecretMissing",
                        "DeviceSecretInvalid")
    IN  IF f # CredOk THEN f ELSE IF d # CredOk THEN d ELSE s

\* C18: Creds::new returns the error of the first of fleet id, device id and
\* device secret that fails: Missing for an empty field, Invalid for a fleet id
\* that is not exactly 8 alphanumerics, a device id that is not exactly 10
\* alphanumerics, a secret that is not exactly 36 chars, FOS- followed by 32
\* alphanumerics; it succeeds, with the three fields as given, exactly when all
\* three have the stated form.
C18_CredsNewAcceptsExactlyTheStatedForm ==
    cred_result # <<>> =>
        /\ cred_result[1].err = FirstFieldError(creds)
        /\ cred_result[1].err = CredOk <=> cred_result[1].creds = <<creds>>

\* ------------------------------------------------------------------ C21
\* packet i of the TransportRecv taken is reached by the loop over the packets
\* that came with Connected: none before it ended the session
AuthHandles(i) ==
    /\ i \in 2..AuthPacketCount
    /\ \A j \in 2..(i - 1) : ~EndsSession(AuthPacket(j))

AuthHandled(type) == {i \in 2..AuthPacketCount : AuthHandles(i) /\ AuthPacket(i).type = type}

\* C21: when a TransportRecv taken during authentication decodes to Connected
\* followed by further packets, these are handled in order within the same step,
\* up to the first that ends the session: each HeartbeatAck is signalled on
\* ping_chan and each NewMailEvent notified after the notifications of Connected;
\* Connected, HeartbeatAck, server CloseConnection in one TransportRecv signals the
\* ack and ends the session with NormalDisconnect.
C21_ExtraFramesHandledBeforeAuthReturns ==
    [][(AuthDecodes /\ AuthPacket(1).type = "Connected") =>
        /\ ping_chan' = Min(ping_chan + Cardinality(AuthHandled("HeartbeatAck")), MaxPing)
        /\ notify_chan' = ConnectedNotes(AuthPacket(1).mail_available)
                            \o Rep("new_mail", Cardinality(AuthHandled("NewMailEvent")))
        /\ (/\ AuthPacketCount = 3
            /\ AuthPacket(2).type = "HeartbeatAck"
            /\ AuthPacket(3) = server_close_connection)
           => /\ ping_chan' = ping_chan + 1
              /\ sup_pc' = "close"
              /\ disconnect_reason' = NormalDisconnect
      ]_vars

\* Connected with mail available, HeartbeatAck and a server CloseConnection came
\* in one TransportRecv during authentication: the ack is on ping_chan, both
\* notifications are out and the supervisor holds NormalDisconnect
C21_AckSignalledThenNormalDisconnect ==
    /\ sup_pc = "close"
    /\ logic_authenticated
    /\ disconnect_reason = NormalDisconnect
    /\ ping_chan = 1
    /\ notify_chan = <<"connected", "new_mail">>

TakenPackets == ProcessPackets(codec \o Head(proc_mailbox_chan).bytes)

\* start_loop takes a TransportRecv in this step and process_packets returns its
\* packets
LoopDecodes ==
    /\ sup_pc = "loop"
    /\ EngineTakes("TransportRecv")
    /\ TakenPackets.ok

\* packet i is the first of the packets taken that ends the session
FirstEnd(i) ==
    /\ i \in 1..Len(TakenPackets.packets)
    /\ EndsSession(TakenPackets.packets[i])
    /\ \A j \in 1..(i - 1) : ~EndsSession(TakenPackets.packets[j])

\* the packets of the given type among the first n taken
TakenBefore(n, type) == {j \in 1..(n - 1) : TakenPackets.packets[j].type = type}

\* the last n elements of seq, all of them if it has fewer
LastOf(seq, n) == SubSeq(seq, Len(seq) - Min(n, Len(seq)) + 1, Len(seq))

\* C23: when start_loop takes a TransportRecv whose first session-ending packet is
\* a server CloseConnection, Unauthorized(r) or ConnectFailed(r), the session ends
\* with NormalDisconnect, Unauthorized(r) or ConnectFailed(r), and the packets
\* that follow it are not handled: only the acks and new mails before it are
\* signalled.
C23_DisconnectingFrameEndsSession ==
    [][LoopDecodes =>
        \A i \in 1..Len(TakenPackets.packets) :
            (/\ FirstEnd(i)
             /\ TakenPackets.packets[i].type \in {"CloseConnection", "Unauthorized",
                                                  "ConnectFailed"}
             /\ TakenPackets.packets[i] # client_close_connection)
            => /\ sup_pc' = "stop_timer"
               /\ disconnect_reason' = ReasonOf(TakenPackets.packets[i])
               /\ ping_chan' = Min(ping_chan + Cardinality(TakenBefore(i, "HeartbeatAck")),
                                   MaxPing)
               /\ notify_chan' =
                    LastOf(notify_chan
                           \o Rep("new_mail", Cardinality(TakenBefore(i, "NewMailEvent"))),
                           MaxNotify)
      ]_vars

\* a session in steady state was ended by an Unauthorized packet: the supervisor
\* holds its reason, and no ack and no new mail was signalled for a packet that
\* came with it
C23_UnauthorizedInSteadyState ==
    /\ sup_pc = "stop_timer"
    /\ logic_authenticated
    /\ disconnect_reason = Unauthorized(0)
    /\ ping_chan = 0
    /\ notify_chan = <<"connected">>
    /\ codec = <<>>

\* ------------------------------------------------------------------ C24
\* the engine handles a Connected with handle_server_resp in this step, as packet
\* i of a TransportRecv taken by start_loop, or of one taken by
\* wait_for_authentication, whose first packet is a Connected too
ConnectedHandledAt(i) ==
    \/ LoopDecodes /\ FirstEnd(i) /\ TakenPackets.packets[i].type = "Connected"
    \/ /\ AuthDecodes
       /\ AuthPacket(1).type = "Connected"
       /\ AuthHandles(i)
       /\ AuthPacket(i).type = "Connected"

\* the thread that ran the engine has panicked
Unwound == sup_pc \in {"unwind", "panicked"}

\* C24: a Connected handled by handle_server_resp, in steady state or among the
\* packets that follow the first Connected during authentication, makes the
\* engine's thread unwind; the packets that follow it are not handled, and from
\* then on the engine takes no event, signals and notifies nothing and writes no
\* packet.
C24_ConnectedInSteadyStateIsFatal ==
    [][/\ proc_mailbox_chan # <<>> =>
            \A i \in 1..Len(TakenPackets.packets) :
                ConnectedHandledAt(i) =>
                    /\ sup_pc' = "unwind"
                    /\ ping_chan' = Min(ping_chan
                                          + Cardinality(TakenBefore(i, "HeartbeatAck")),
                                        MaxPing)
       /\ Unwound =>
                /\ sup_pc' \in {"unwind", "panicked"}
                /\ ping_chan' <= ping_chan
                /\ notify_chan' = notify_chan
                /\ codec' \in {codec, <<>>}
                /\ Len(transport_write_chan') <= Len(transport_write_chan)
                /\ IsPrefix(proc_mailbox_chan, proc_mailbox_chan') \/ ~logic_alive'
      ]_vars

\* the engine's thread is unwinding from a Connected that came, with a
\* HeartbeatAck after it or alone, to an authenticated session: the ack was not
\* signalled and nothing but the first connected was notified
C24_UnwindingOnConnected ==
    /\ sup_pc = "unwind"
    /\ logic_alive
    /\ logic_authenticated
    /\ ping_chan = 0
    /\ notify_chan = <<"connected">>

\* ------------------------------------------------------------------ C25
\* packet i of the TransportRecv taken is reached by the loop over its packets
Reached(i) ==
    /\ i \in 1..Len(TakenPackets.packets)
    /\ \A j \in 1..(i - 1) : ~EndsSession(TakenPackets.packets[j])

\* the packets reached that answer the pending entry e
Responders(e) ==
    {i \in 1..Len(TakenPackets.packets) :
        /\ Reached(i)
        /\ TakenPackets.packets[i].type = "PulseResp"
        /\ TakenPackets.packets[i].pulse_id = e.id}

FirstOf(set) == CHOOSE i \in set : \A j \in set : i <= j

\* C25: events leave the engine's queue at its head only and enter it at its
\* end; and when start_loop takes a TransportRecv, all its packets are handled in
\* that step, in the order they came in, before any later event: each pending
\* entry is answered by the first packet of the event that names it and by no
\* later one, an entry no packet names stays, every NewMailEvent is notified, and
\* the events queued behind stay queued.
C25_PacketsInOrderEventsInFifo ==
    [][/\ \/ proc_mailbox_chan' = proc_mailbox_chan
          \/ proc_mailbox_chan # <<>> /\ proc_mailbox_chan' = Tail(proc_mailbox_chan)
          \/ \E ev \in {proc_mailbox_chan'[Len(proc_mailbox_chan')]} :
                /\ proc_mailbox_chan' # <<>>
                /\ proc_mailbox_chan' = Append(proc_mailbox_chan, ev)
       /\ LoopDecodes =>
            /\ pending_txns' \subseteq pending_txns
            /\ \A e \in pending_txns :
                    IF Responders(e) = {}
                    THEN e \in pending_txns' /\ replies'[e.chan] = replies[e.chan]
                    ELSE /\ e \notin pending_txns'
                         /\ Len(replies'[e.chan]) = Len(replies[e.chan]) + 1
                         /\ replies'[e.chan][Len(replies'[e.chan])].val =
                                (IF TakenPackets.packets[FirstOf(Responders(e))].successful
                                 THEN "Ok" ELSE "Err:pulse")
            /\ notify_chan' =
                    LastOf(notify_chan
                           \o Rep("new_mail",
                                  Cardinality({i \in 1..Len(TakenPackets.packets) :
                                      /\ Reached(i)
                                      /\ TakenPackets.packets[i].type = "NewMailEvent"})),
                           MaxNotify)
      ]_vars

\* the engine has answered a pulse with the error a packet brought, its entry is
\* gone and the caller holds that answer only, whatever packets came after it,
\* while a later event waits in the queue
C25_FirstAnswerWinsWhileLaterEventWaits ==
    /\ sup_pc = "loop"
    /\ proc_mailbox_chan # <<>>
    /\ pending_txns = {}
    /\ \E c \in Chans : Len(replies[c]) = 1 /\ replies[c][1].val = "Err:pulse"

\* ------------------------------------------------------------------ C26
\* what is left to write of the pending message
PendingLeft ==
    IF sock.pending_buf = <<>> THEN <<>>
    ELSE SubSeq(sock.pending_buf[1], sock.pending_offset + 1, Len(sock.pending_buf[1]))

\* C26: whatever the socket answers, the bytes it has taken are a prefix of the
\* messages the engine sent, in the order it sent them: with what is left of the
\* pending message and the messages still in write_chan they are exactly the
\* messages sent so far; and a message is pending only while some of it is left,
\* so that the next is taken only when it has been written completely.
C26_SocketTakesMessagesInOrder ==
    /\ sock.out \o PendingLeft \o Flatten(sock.write_chan)
            = Flatten(SubSeq(sock.msgs, 1, sock.sent))
    /\ IsPrefix(sock.out, Flatten(sock.msgs))
    /\ sock.pending_buf # <<>> => sock.pending_offset < Len(sock.pending_buf[1])

\* the socket has taken the byte of the first message and the first byte of the
\* second, which is pending after a partial write while the thread is about to
\* read
C26_SecondMessagePartlyWritten ==
    /\ sock.msgs = <<<<1>>, <<2, 3>>>>
    /\ sock.out = <<1, 2>>
    /\ sock.pending_buf = <<<<2, 3>>>>
    /\ sock.pending_offset = 1
    /\ sock.pc = "pull"

\* ------------------------------------------------------------------ C27
\* the events of the given type among those posted to the engine
Posted(type) == {i \in 1..Len(proc_mailbox_chan) : proc_mailbox_chan[i].type = type}

\* C27: the transport thread posts no TransportClose while it runs and exactly
\* one when it ends, whatever made its loop end, and that one comes after every
\* TransportRecv it posted.
C27_OneTransportCloseAfterEveryRecv ==
    /\ Cardinality(Posted("TransportClose")) = (IF sock.pc = "done" THEN 1 ELSE 0)
    /\ \A i \in Posted("TransportClose"), j \in Posted("TransportRecv") : j < i
    /\ socket_alive <=> sock.pc # "done"

\* the thread has ended on a write that stalled for more than 10 s after it had
\* posted bytes it read: the engine's queue holds the TransportRecv, then the one
\* TransportClose
C27_ClosedAfterWriteStall ==
    /\ sock.pc = "done"
    /\ sock.pending_buf # <<>>
    /\ sock.pending_age > MaxPendingWriteAge
    /\ ~socket_close
    /\ proc_mailbox_chan = <<TransportRecv(ReadBytes), TransportClose>>

\* ------------------------------------------------------------- heartbeats
\* the number of HeartbeatTick events in a sequence of events
HeartbeatTicks(events) ==
    Cardinality({i \in 1..Len(events) : events[i] = HeartbeatTick})

\* at a turn of the timer, the last heartbeat was posted 30 s ago or more, or
\* 5 s ago or more and later than the last ack observed, the ack this turn
\* takes from ping_chan included
HeartbeatDue ==
    \/ timer.last_heartbeat_sent >= HeartbeatEvery
    \/ /\ timer.last_heartbeat_sent >= HeartbeatRetry
       /\ timer.sent_after_ack
       /\ ping_chan = 0

\* C28: at each turn of the timer one HeartbeatTick is posted and
\* last_heartbeat_sent is set to now exactly when the last post is 30 s old or
\* more, or 5 s old or more and later than the last observed ack; otherwise
\* none is posted and last_heartbeat_sent is kept.
C28_HeartbeatEvery30sRetriedEvery5s ==
    [][TimerProc =>
        /\ HeartbeatTicks(proc_mailbox_chan') = (IF HeartbeatDue THEN 1 ELSE 0)
        /\ timer'.last_heartbeat_sent
            = (IF HeartbeatDue THEN 0 ELSE timer.last_heartbeat_sent) + TimerSleep]_vars

\* C28 witness: no ack was ever observed, the heartbeat posted at 30 s has been
\* posted again 5 s later, and the HeartbeatTick is in the mailbox
C28_RetriedAfterFiveSeconds ==
    /\ timer.last_heartbeat_ack = HeartbeatEvery + HeartbeatRetry + TimerSleep
    /\ timer.last_heartbeat_sent = TimerSleep
    /\ timer.sent_after_ack
    /\ HeartbeatTicks(proc_mailbox_chan) = 1

\* ------------------------------------------------------ transaction ids
\* the event start_loop takes next is a SendPulse or MailboxNext that needs a
\* txn_id
NeedsTxnId ==
    /\ sup_pc = "loop" /\ ~timer_shutdown
    /\ proc_mailbox_chan # <<>>
    /\ Head(proc_mailbox_chan).type = "Cmd"
    /\ \/ Head(proc_mailbox_chan).cmd.kind = "MailboxNext"
       \/ /\ Head(proc_mailbox_chan).cmd.kind = "SendPulse"
          /\ Head(proc_mailbox_chan).cmd.name_len <= MaxNameLen

PendingKeys == {e.id : e \in pending_txns}

\* the counter's next value and the values the probes reach
Candidates == next_txn_id..(next_txn_id + Probes)

\* C29: a SendPulse or MailboxNext takes the first counter value, among the
\* next one and the ones the probes reach, that is not the key of a pending
\* entry, and its frame carries that id; if all of them are pending the caller
\* receives txn_failed, no frame is written and the pending table is unchanged.
C29_ProbesThenFailsOrTakesFreeId ==
    [][LoopStep /\ NeedsTxnId =>
        \E c \in {Head(proc_mailbox_chan).cmd.chan} :
            IF Candidates \subseteq PendingKeys
            THEN /\ replies' = [replies EXCEPT ![c] =
                                  Append(@, [val |-> "Err:txn_failed", fid |-> <<>>])]
                 /\ transport_write_chan' = transport_write_chan
                 /\ pending_txns' = pending_txns
            ELSE \E id \in Candidates \ PendingKeys :
                    /\ \A k \in Candidates \ PendingKeys : id <= k
                    /\ pending_txns' = pending_txns \cup {[id |-> id, chan |-> c, age |-> 0]}
                    /\ transport_write_chan'
                         \in {Append(transport_write_chan, PulsePkt(id)),
                              Append(transport_write_chan, MailboxNextPkt(FALSE, id))}
                    /\ replies' = replies]_vars

\* C29 witness: a caller has received txn_failed while four entries were pending
C29_CallerToldOfExhaustion ==
    \E c \in Chans :
        /\ replies[c] = <<[val |-> "Err:txn_failed", fid |-> <<>>]>>
        /\ calls[c].cmd.kind \in {"SendPulse", "MailboxNext"}
        /\ Cardinality(pending_txns) > Probes
        /\ transport_write_chan = <<>>

\* ------------------------------------------------------ the pending table
\* the requests of a pending table: the key and the caller's reply channel
Requests(table) == {<<e.id, e.chan>> : e \in table}

\* the frames that carry the request under key id
FramesOf(id) == {PulsePkt(id), MailboxNextPkt(FALSE, id), AckMailPkt(id)}

\* C30: while the engine lives, a request enters the pending table only in a
\* step that emits its frame, leaves it only in a step that sends a value on
\* its reply channel, and no entry's reply channel has received a value.
C30_PendingIsAcceptedAndUnanswered ==
    [][logic_alive' =>
        /\ \A r \in Requests(pending_txns') \ Requests(pending_txns) :
                transport_write_chan' \in {Append(transport_write_chan, f) : f \in FramesOf(r[1])}
        /\ \A r \in Requests(pending_txns) \ Requests(pending_txns') :
                /\ r[2] \in Chans
                /\ Len(replies'[r[2]]) = Len(replies[r[2]]) + 1
        /\ \A r \in Requests(pending_txns') :
                r[2] \in Chans => replies'[r[2]] = <<>>]_vars

\* ---------------------------------------------------------------- mutexes
\* the mutex thread t is waiting for in lock(), if any
WaitsFor(t) ==
    CASE t = "start" /\ locks.at[t] \in {"publish", "clear_mailbox"} -> {"mailbox_chan"}
      [] t = "start" /\ locks.at[t] \in {"reset_reason", "store_reason"} ->
            {"disconnected_reason"}
      [] t = "start" /\ locks.at[t] \in {"reset_reconnect", "backoff", "backoff_store"} ->
            {"reconnect_in"}
      [] t \in {"send_cmd", "stop"} /\ locks.at[t] = "lock" -> {"mailbox_chan"}
      [] t = "status" /\ locks.at[t] = "lock" -> {"disconnected_reason"}
      [] t = "status" /\ locks.at[t] = "match" /\ disconnected_reason.kind = "ConnectFailed" ->
            {"reconnect_in"}
      [] OTHER -> {}

Holds(t) == {m \in Mutexes : locks.owner[m] = t}

\* the places where start is in socket I/O, a blocking receive, a join or a sleep
BlockingPlaces == {"connect", "auth", "loop", "join_timer", "close", "sleep"}

\* thread t waits for a mutex that thread u holds
WaitsOn(t, u) == \E m \in WaitsFor(t) : locks.owner[m] = u

\* C31: there is no set of threads each of which waits for a mutex held by a
\* thread of the set; start holds no mutex where it blocks in I/O, a receive,
\* a join or a sleep; and no thread holds a mutex outside a call.
C31_NoDeadlockNoLockAcrossBlocking ==
    /\ \A group \in SUBSET Threads :
            group # {} => \E t \in group : \A u \in group : ~WaitsOn(t, u)
    /\ locks.at["start"] \in BlockingPlaces => Holds("start") = {}
    /\ \A t \in Threads : locks.at[t] \in {"idle", "returned"} => Holds(t) = {}

\* C31 witness: status holds disconnected_reason and waits for reconnect_in while
\* start holds reconnect_in inside backoff
C31_StatusWaitsForBackoff ==
    /\ locks.owner["disconnected_reason"] = "status"
    /\ WaitsFor("status") = {"reconnect_in"}
    /\ locks.owner["reconnect_in"] = "start"
    /\ locks.at["start"] = "backoff_write"

\* ------------------------------------------------------ duplicate requests
\* the event start_loop takes next is a MailOp command
TakesMailOp ==
    /\ sup_pc = "loop" /\ ~timer_shutdown
    /\ proc_mailbox_chan # <<>>
    /\ Head(proc_mailbox_chan).type = "Cmd"
    /\ Head(proc_mailbox_chan).cmd.kind = "MailOp"

\* the kind of the command whose entry e is
KindOf(e) == IF e.chan \in Chans THEN calls[e.chan].cmd.kind ELSE "MailOp"

\* C32: a MailOp is answered duplicate_request only when the entry pending under
\* its pulse_id is that of another MailOp, never that of a SendPulse or a
\* MailboxNext.
C32_DuplicateOnlyForPendingMailOp ==
    [][LoopStep /\ TakesMailOp =>
        \E cmd \in {Head(proc_mailbox_chan).cmd} :
            (replies'[cmd.chan] # replies[cmd.chan]
             /\ replies'[cmd.chan][Len(replies'[cmd.chan])].val = "Err:duplicate_request")
            => \E e \in pending_txns : e.id = cmd.key /\ KindOf(e) = "MailOp"]_vars

\* ------------------------------------------------------- replies by kind
\* the replies a response frame can give to a request of each kind
OwnReplies(kind) ==
    CASE kind = "SendPulse" -> {"Ok", "Err:pulse"}
      [] kind = "MailboxNext" -> {"Mail:Some", "Mail:None", "Err:failed"}
      [] kind = "MailOp" ->
            {"MailAckSuccessful:true", "MailAckSuccessful:false", "Err:mail_ack_failed"}
      [] OTHER -> {}

\* C33: every value a response frame has put on a caller's reply channel is a
\* reply of the kind of that caller's request: a frame of another kind with the
\* same id resolves nothing.
C33_AnsweredWithOwnKind ==
    \A c \in Chans : \A i \in 1..Len(replies[c]) :
        replies[c][i].fid # <<>> => replies[c][i].val \in OwnReplies(calls[c].cmd.kind)

\* ------------------------------------------------------- the longest sleep
\* C34: the sleep start takes after a session that ended with a reason other than
\* Unauthorized is at most 30 s.
C34_OtherFailuresSleepAtMostThirtySeconds ==
    (sup_pc = "sleep" /\ disconnected_reason.kind # "Unauthorized") => sleep_time <= 30000

\* ------------------------------------------------- exhaustion and the session
\* C35: after a caller has received txn_failed the engine is still in
\* start_loop and the session has no disconnect reason.
C35_ExhaustionKeepsTheSession ==
    \A c \in Chans :
        (replies[c] # <<>> /\ replies[c][Len(replies[c])].val = "Err:txn_failed")
        => (sup_pc = "loop" /\ disconnect_reason = NoReason)

\* -------------------------------------------- commands during authentication
\* C36: while the session is in wait_for_authentication the supervisor's
\* mailbox_chan holds no sender and no command is in the engine's queue.
C36_NoCommandDuringAuthentication ==
    sup_pc = "auth" =>
        /\ ~mailbox_chan
        /\ \A i \in 1..Len(proc_mailbox_chan) : proc_mailbox_chan[i].type # "Cmd"

\* ------------------------------------------------------ the Connect frame
\* the frame a step puts on transport_write_chan, if it puts one
Put ==
    IF /\ Len(transport_write_chan') = Len(transport_write_chan) + 1
       /\ SubSeq(transport_write_chan', 1, Len(transport_write_chan)) = transport_write_chan
    THEN {transport_write_chan'[Len(transport_write_chan')]}
    ELSE {}

\* a Connect frame is put only by the first statement of wait_for_authentication,
\* and no other frame is put before Connected was accepted
OnlyConnectBeforeConnected ==
    \A f \in Put :
        /\ f.type = "Connect" => sup_pc = "publish"
        /\ f.type # "Connect" => logic_authenticated

\* C37 as stated: every session that reaches wait_for_authentication puts the
\* Connect frame on the empty transport_write_chan, a Connect frame is put
\* nowhere else, and no Heartbeat, Pulse, MailboxNext or AckMail frame is put
\* before Connected was accepted.
C37_ConnectFirstInEverySession ==
    [][/\ (sup_pc = "publish" /\ sup_pc' # "publish")
            => transport_write_chan' = <<ConnectPkt>>
       /\ OnlyConnectBeforeConnected]_vars

\* C37 amended: a session whose transport thread is running when
\* wait_for_authentication starts puts the Connect frame on the empty
\* transport_write_chan; one whose transport thread has ended puts nothing and
\* fails with ForceCloseSocket; a Connect frame is put nowhere else, and no other
\* frame is put before Connected was accepted.
C37_ConnectFirstWhileTransportRuns ==
    [][/\ (sup_pc = "publish" /\ sup_pc' # "publish") =>
            IF socket_alive
            THEN transport_write_chan' = <<ConnectPkt>> /\ sup_pc' = "auth"
            ELSE /\ Put = {}
                 /\ sup_pc' = "close"
                 /\ disconnect_reason' = ForceCloseSocket
       /\ OnlyConnectBeforeConnected]_vars

\* C37 witness: the second session waits for Connected with the Connect frame
\* alone on transport_write_chan
C37_SecondSessionSentConnect ==
    /\ sup_pc = "auth"
    /\ sessions = 2
    /\ ~logic_authenticated
    /\ transport_write_chan = <<ConnectPkt>>

\* ------------------------------------------------------- stray responses
RespTypes == {"PulseResp", "MailboxNextResp", "AckMailResp"}

\* the id a response frame carries
RespId(p) == IF p.type = "MailboxNextResp" THEN p.txn_id ELSE p.pulse_id

\* packet p is a response whose id is the key of no pending entry
Stray(p) == p.type \in RespTypes /\ RespId(p) \notin PendingKeys

\* C38: when start_loop takes a TransportRecv in which every response frame
\* carries an id that is the key of no pending entry, and no frame ends the
\* session, the pending table is unchanged, no reply channel receives a value
\* and the engine stays in start_loop.
C38_StrayResponseIgnored ==
    [][(/\ LoopStep /\ LoopDecodes /\ sup_pc = "loop"
        /\ \E i \in 1..Len(TakenPackets.packets) : Stray(TakenPackets.packets[i])
        /\ \A i \in 1..Len(TakenPackets.packets) :
                \/ Stray(TakenPackets.packets[i])
                \/ TakenPackets.packets[i].type \in {"HeartbeatAck", "NewMailEvent"})
       => /\ pending_txns' = pending_txns
          /\ replies' = replies
          /\ mails' = mails
          /\ sup_pc' = "loop"
          /\ disconnect_reason' = NoReason]_vars

\* C38 witness: a request is pending under id 0, no caller has received a
\* value, and a HeartbeatAck has been signalled: the response frame that came
\* with it resolved nothing
C38_StrayHandledWhileRequestPending ==
    /\ sup_pc = "loop"
    /\ ping_chan > 0
    /\ \E e \in pending_txns : e.id = 0
    /\ \A c \in Chans : replies[c] = <<>>

\* ------------------------------------------------------ one session at a time
\* C39: where start sleeps for backoff, tests its loop guard or is about to
\* create the next session, the timer thread and the transport thread of the
\* last session have ended, its engine is dropped and mailbox_chan holds no
\* sender.
C39_OneSessionAtATime ==
    sup_pc \in {"sleep", "head", "connect", "returned"} =>
        /\ ~timer_alive
        /\ ~socket_alive
        /\ ~logic_alive
        /\ ~mailbox_chan

\* C39 witness: start sleeps after a session that had authenticated and started
\* its timer; both threads are gone and mailbox_chan is cleared
C39_AsleepAfterAuthenticatedSession ==
    /\ sup_pc = "sleep"
    /\ notify_chan = <<"connected", "disconnected">>
    /\ ~timer_alive /\ ~socket_alive /\ ~mailbox_chan

\* ---------------------------------------------------------- notifications
\* the last notification sent, "" if none
LastNote(chan) == IF chan = <<>> THEN "" ELSE chan[Len(chan)]

\* the step sends the connected notification, followed or not by new_mail
SendsConnected ==
    /\ notify_chan' # notify_chan
    /\ \/ LastNote(notify_chan') = "connected"
       \/ /\ Len(notify_chan') = 2
          /\ notify_chan' = <<"connected", "new_mail">>

\* the disconnected notification is sent by start's cleanup only, and when
\* connected is sent the last notification before it, if any, is disconnected
NotesAlternate ==
    /\ (notify_chan' # notify_chan /\ LastNote(notify_chan') = "disconnected")
            => sup_pc = "cleanup"
    /\ SendsConnected => LastNote(notify_chan) \in {"", "disconnected"}

====
